---- MODULE Spec2Model ----
(***************************************************************************)
(* mdrelease: changelog-driven release flow.                               *)
(*                                                                         *)
(* The model follows internal/app/app.go (the commands of run, flag        *)
(* resolution and the release sequence of runRelease, runCheck and         *)
(* runRepoVersion), internal/gitutil/gitutil.go (the git port and its      *)
(* dry-run behaviour) and internal/changelog/changelog.go (ParseLatest,    *)
(* on changelogs given character by character).  A run is a sequence of    *)
(* port calls; every port call is one step, so that the order of the       *)
(* calls, the point where a run stops and the state of the repository at   *)
(* every point are visible.                                                *)
(***************************************************************************)
EXTENDS Naturals, Sequences, FiniteSets, TLC

VARIABLES pc, args, dryRun, forceRetag, actions, createdTag, calls, result,
          repo, repo0, file, entry, parses, lastTagRun

vars == <<pc, args, dryRun, forceRetag, actions, createdTag, calls, result,
          repo, repo0, file, entry, parses, lastTagRun>>

(***************************************************************************)
(* Bounds.                                                                 *)
(***************************************************************************)
\* Largest number of local commits not yet pushed.
MaxCommits == 1

\* Longest changelog made of any of the lines, and longest changelog made
\* of the lines of well-formed entries.
MaxLines == 3

MaxEntryLines == 5

(***************************************************************************)
(* Program constants.                                                      *)
(***************************************************************************)
ExitOK == 0
ExitGeneral == 1
ExitUsage == 2
ExitParse == 3
ExitPreflight == 4
ExitGit == 5

\* Defaults of the --remote and --tag-prefix flags.
DefaultRemote == "origin"
DefaultTagPrefix == "v"

\* The latest entry of the changelog the runs release (writeChangelog of the
\* app tests).
EntryVersion == "1.2.3"
EntrySummary == "Release title"
EntryDescription == "- First change"

\* toolName, and ToolVersion as long as main's init has not replaced it by
\* the version of the changelog embedded in the binary.
toolName == "mdrelease"

ToolVersion == "v0.0.0"

\* tag := cfg.tagPrefix + entry.Version
ReleaseTag == DefaultTagPrefix \o EntryVersion

(***************************************************************************)
(* Errors.  An error value carries its Go type, the failed operation and   *)
(* whether it was wrapped with the "created locally" remediation text.     *)
(***************************************************************************)
NoErr == [type |-> "nil", op |-> "", msg |-> "", note |-> FALSE]

GitError(op, msg) == [type |-> "GitError", op |-> op, msg |-> msg, note |-> FALSE]

usageError(msg) == [type |-> "usageError", op |-> "", msg |-> msg, note |-> FALSE]

preflightError(msg) == [type |-> "preflightError", op |-> "", msg |-> msg, note |-> FALSE]

ParseError(msg) == [type |-> "ParseError", op |-> "", msg |-> msg, note |-> FALSE]

\* The remediation formatted with %v: the GitError is no longer in the chain.
WrapWithoutUnwrap(err) == [err EXCEPT !.type = "errorString", !.note = TRUE]

\* fmt.Errorf("%w (tag %s was created locally and may need manual push/retry)")
WrapCreatedLocally(err) == [err EXCEPT !.note = TRUE]

\* Run: the exit code of an error.  usageError is matched by a type
\* assertion (not through a wrapper), the others by errors.As.
ExitCode(err) ==
  IF err = NoErr THEN ExitOK
  ELSE IF err.type = "usageError" /\ ~err.note THEN ExitUsage
  ELSE IF err.type = "ParseError" THEN ExitParse
  ELSE IF err.type = "preflightError" THEN ExitPreflight
  ELSE IF err.type = "GitError" THEN ExitGit
  ELSE ExitGeneral

(***************************************************************************)
(* The repository the git port acts on.                                    *)
(*   isRepo     the working directory is inside a git work tree            *)
(*   hasRemote  the configured remote exists                               *)
(*   dirty      the work tree has changes that are not staged              *)
(*   staged     the index has staged changes                               *)
(*   ahead      local commits the remote branch does not have              *)
(*   behind     the remote branch has commits the local branch lacks       *)
(*   localTags, branches, remoteTags   ref names                           *)
(***************************************************************************)
TagNames == {ReleaseTag}

Repos ==
  [isRepo : {TRUE}, hasRemote : BOOLEAN, dirty : BOOLEAN, staged : BOOLEAN,
   ahead : 0..MaxCommits, behind : BOOLEAN,
   localTags : SUBSET TagNames, branches : SUBSET TagNames,
   remoteTags : SUBSET TagNames]

NotARepo ==
  [isRepo |-> FALSE, hasRemote |-> FALSE, dirty |-> FALSE, staged |-> FALSE,
   ahead |-> 0, behind |-> FALSE, localTags |-> {}, branches |-> {},
   remoteTags |-> {}]

\* Without a remote there is no remote branch and there are no remote tags.
ValidRepo(r) == ~r.hasRemote => (r.remoteTags = {} /\ ~r.behind)

InitRepos == {r \in Repos : ValidRepo(r)} \cup {NotARepo}

\* What a port call returns: its error, the repository after it and, for a
\* query, the answer.
Ret(err, r, val) == [err |-> err, repo |-> r, val |-> val]

\* git rev-parse --verify --quiet <name>: succeeds when <name> resolves to
\* an object, be it through refs/tags/<name> or refs/heads/<name>.
RevParseVerify(r, name) == name \in r.localTags \/ name \in r.branches

(***************************************************************************)
(* The git port (gitutil.Client).  dry is Client.DryRun; fail is whether   *)
(* the git command itself fails (network down, hook rejects, lock held).   *)
(***************************************************************************)
EnsureRepo(r) ==
  IF r.isRepo THEN Ret(NoErr, r, TRUE)
  ELSE Ret(GitError("validate git repository", "not a git repository"), r, FALSE)

EnsureRemote(r, remote) ==
  IF r.isRepo /\ r.hasRemote THEN Ret(NoErr, r, TRUE)
  ELSE Ret(GitError("validate git remote", "no remote set"), r, FALSE)

\* git fetch --tags: the tags of the remote become local tags.
FetchTags(r, dry, fail) ==
  IF dry THEN Ret(NoErr, r, TRUE)
  ELSE IF fail \/ ~r.hasRemote THEN Ret(GitError("fetch tags", "git"), r, FALSE)
  ELSE Ret(NoErr, [r EXCEPT !.localTags = r.localTags \cup r.remoteTags], TRUE)

\* EnsureTagAbsent that reports no error when the ref resolves.
EnsureTagAbsentNeverFails(r, tag) == Ret(NoErr, r, TRUE)

EnsureTagAbsent(r, tag) ==
  IF RevParseVerify(r, tag)
  THEN Ret(GitError("validate tag absence", "tag already exists"), r, FALSE)
  ELSE Ret(NoErr, r, TRUE)

EnsureTagPresent(r, tag) ==
  IF ~RevParseVerify(r, tag)
  THEN Ret(GitError("validate local tag", "tag does not exist locally"), r, FALSE)
  ELSE Ret(NoErr, r, TRUE)

\* git add -A
StageAll(r, dry, fail) ==
  IF dry THEN Ret(NoErr, r, TRUE)
  ELSE IF fail THEN Ret(GitError("stage changes", "git"), r, FALSE)
  ELSE Ret(NoErr, [r EXCEPT !.staged = r.staged \/ r.dirty, !.dirty = FALSE], TRUE)

\* git diff --cached --name-only
HasStagedChanges(r, fail) ==
  IF fail THEN Ret(GitError("check staged changes", "git"), r, FALSE)
  ELSE Ret(NoErr, r, r.staged)

\* git commit -m summary [-m description]: fails with nothing staged.
Commit(r, dry, fail) ==
  IF dry THEN Ret(NoErr, r, TRUE)
  ELSE IF fail \/ ~r.staged THEN Ret(GitError("commit changes", "git"), r, FALSE)
  ELSE Ret(NoErr, [r EXCEPT !.staged = FALSE, !.ahead = r.ahead + 1], TRUE)

\* CreateTag without its dry-run guard.
CreateTagIgnoresDryRun(r, tag, dry, fail) ==
  IF fail \/ tag \in r.localTags THEN Ret(GitError("create tag", "git"), r, FALSE)
  ELSE Ret(NoErr, [r EXCEPT !.localTags = r.localTags \cup {tag}], TRUE)

\* git tag -a tag -m message: fails when refs/tags/<tag> exists.
CreateTag(r, tag, dry, fail) ==
  IF dry THEN Ret(NoErr, r, TRUE)
  ELSE IF fail \/ tag \in r.localTags THEN Ret(GitError("create tag", "git"), r, FALSE)
  ELSE Ret(NoErr, [r EXCEPT !.localTags = r.localTags \cup {tag}], TRUE)

\* git push remote HEAD: rejected when the remote branch has commits the
\* local branch lacks.
PushHead(r, remote, dry, fail) ==
  IF dry THEN Ret(NoErr, r, TRUE)
  ELSE IF fail \/ ~r.hasRemote \/ r.behind THEN Ret(GitError("push commit", "git"), r, FALSE)
  ELSE Ret(NoErr, [r EXCEPT !.ahead = 0], TRUE)

\* git push remote tag: pushes the ref the name resolves to; the remote
\* gains the tag when the name is a local tag.
PushTag(r, remote, tag, dry, fail) ==
  IF dry THEN Ret(NoErr, r, TRUE)
  ELSE IF fail \/ ~r.hasRemote \/ ~RevParseVerify(r, tag)
  THEN Ret(GitError("push tag", "git"), r, FALSE)
  ELSE IF tag \in r.localTags
  THEN Ret(NoErr, [r EXCEPT !.remoteTags = r.remoteTags \cup {tag}], TRUE)
  ELSE Ret(NoErr, r, TRUE)

(***************************************************************************)
(* Port operations that runRelease calls through the gitOps interface and  *)
(* whose bodies are not part of the sources at hand; they follow the       *)
(* port contract (every mutating call has a dry-run mode that reports and  *)
(* changes nothing; the existence queries read real state).                *)
(***************************************************************************)
\* fetch the remote's refs and tags
FetchRemote(r, remote, dry, fail) ==
  IF dry THEN Ret(NoErr, r, TRUE)
  ELSE IF fail \/ ~r.hasRemote THEN Ret(GitError("fetch remote", "git"), r, FALSE)
  ELSE Ret(NoErr, [r EXCEPT !.localTags = r.localTags \cup r.remoteTags], TRUE)

\* git pull --ff-only: fails when the branches have diverged, no merge or
\* rebase fallback.
PullFFOnly(r, remote, dry, fail) ==
  IF dry THEN Ret(NoErr, r, TRUE)
  ELSE IF fail \/ ~r.hasRemote \/ (r.behind /\ r.ahead > 0)
  THEN Ret(GitError("pull --ff-only", "git"), r, FALSE)
  ELSE Ret(NoErr, [r EXCEPT !.behind = FALSE], TRUE)

HasLocalTag(r, tag, fail) ==
  IF fail THEN Ret(GitError("check local tag", "git"), r, FALSE)
  ELSE Ret(NoErr, r, tag \in r.localTags)

HasRemoteTag(r, remote, tag, fail) ==
  IF fail \/ ~r.hasRemote THEN Ret(GitError("check remote tag", "git"), r, FALSE)
  ELSE Ret(NoErr, r, tag \in r.remoteTags)

DeleteLocalTag(r, tag, dry, fail) ==
  IF dry THEN Ret(NoErr, r, TRUE)
  ELSE IF fail \/ tag \notin r.localTags THEN Ret(GitError("delete local tag", "git"), r, FALSE)
  ELSE Ret(NoErr, [r EXCEPT !.localTags = r.localTags \ {tag}], TRUE)

DeleteRemoteTag(r, remote, tag, dry, fail) ==
  IF dry THEN Ret(NoErr, r, TRUE)
  ELSE IF fail \/ ~r.hasRemote THEN Ret(GitError("delete remote tag", "git"), r, FALSE)
  ELSE Ret(NoErr, [r EXCEPT !.remoteTags = r.remoteTags \ {tag}], TRUE)

(***************************************************************************)
(* Command line.  A boolean flag is absent ("unset"), given as true        *)
(* ("--tag") or given as false ("--tag=false"); a flag that is given is    *)
(* visited by flag.FlagSet.Visit whatever its value.                       *)
(***************************************************************************)
FlagVals == {"unset", "true", "false"}

ActionFlags == {"stage-all", "commit", "tag", "push", "push-commit", "push-tag"}

FlagNames == ActionFlags \cup {"all"}

\* The command lines of a release run: the flags and --dry-run, --force-retag.
\* cmd is the subcommand run dispatches on ("release" when the command line
\* starts with a flag or is empty) and positional tells whether arguments
\* are left over after the flags.
ArgsOver(vals) ==
  [cmd : {"release"}, positional : {FALSE}, flags : [FlagNames -> vals],
   dryRun : BOOLEAN, forceRetag : BOOLEAN]

\* The command lines the release runs are started with.
RunArgs == ArgsOver({"unset", "true"})

\* All command lines, with flags given as false too.
AllArgs == ArgsOver(FlagVals)

NoArgs ==
  [cmd |-> "release", positional |-> FALSE, flags |-> [n \in FlagNames |-> "unset"],
   dryRun |-> FALSE, forceRetag |-> FALSE]

\* Release command lines with an argument left over after the flags: some
\* flag comes first, or run would take the argument for a subcommand.
PositionalArgs ==
  {[a EXCEPT !.positional = TRUE] :
     a \in {b \in RunArgs : /\ b.dryRun \/ b.flags["all"] = "true"
                            /\ \A n \in ActionFlags \ {"tag"} : b.flags[n] = "unset"}}

\* mdrelease check [--dry-run] [argument]
CheckArgs ==
  {[NoArgs EXCEPT !.cmd = "check", !.dryRun = d, !.positional = p] :
     d \in BOOLEAN, p \in BOOLEAN}

\* mdrelease version [argument]
VersionArgs ==
  {[NoArgs EXCEPT !.cmd = "version", !.positional = p] : p \in BOOLEAN}

\* mdrelease <anything else that is not a flag>
UnknownArgs == {[NoArgs EXCEPT !.cmd = "unknown"]}

\* mdrelease --version [arguments]
ToolVersionArgs ==
  {[NoArgs EXCEPT !.cmd = "--version", !.positional = p] : p \in BOOLEAN}

\* visitedFlags: the names of the flags that were set on the command line.
visitedFlags(a) == {n \in FlagNames : a.flags[n] # "unset"}

\* The value of a boolean flag variable after fs.Parse (default false).
FlagValue(a, n) == a.flags[n] = "true"

\* explicitMutation that forgets the --push alias.
explicitMutationWithoutPush(a) == visitedFlags(a) \cap (ActionFlags \ {"push"}) # {}

\* visited["stage-all"] || visited["commit"] || ... (runRelease)
explicitMutation(a) == visitedFlags(a) \cap ActionFlags # {}

NoActions ==
  [stageAll |-> FALSE, commit |-> FALSE, tag |-> FALSE, pushCommit |-> FALSE,
   pushTag |-> FALSE]

FullPipeline ==
  [stageAll |-> TRUE, commit |-> TRUE, tag |-> TRUE, pushCommit |-> TRUE,
   pushTag |-> TRUE]

\* ResolveActions where --push sets the commit push only.
ResolveActionsPushCommitOnly(a) ==
  IF FlagValue(a, "all") \/ ~explicitMutation(a) THEN FullPipeline
  ELSE [stageAll   |-> FlagValue(a, "stage-all"),
        commit     |-> FlagValue(a, "commit"),
        tag        |-> FlagValue(a, "tag"),
        pushCommit |-> FlagValue(a, "push-commit") \/ FlagValue(a, "push"),
        pushTag    |-> FlagValue(a, "push-tag")]

\* runRelease: the action set of a command line that is not rejected.
ResolveActions(a) ==
  IF FlagValue(a, "all") \/ ~explicitMutation(a) THEN FullPipeline
  ELSE [stageAll   |-> FlagValue(a, "stage-all"),
        commit     |-> FlagValue(a, "commit"),
        tag        |-> FlagValue(a, "tag"),
        pushCommit |-> FlagValue(a, "push-commit") \/ FlagValue(a, "push"),
        pushTag    |-> FlagValue(a, "push-tag") \/ FlagValue(a, "push")]

\* The conflict check on the values of the flags instead of on the flags
\* that were given.
RejectsAllWithTrueFlags(a) ==
  FlagValue(a, "all") /\ \E n \in ActionFlags : FlagValue(a, n)

\* runRelease: --all together with an individual action flag is rejected.
RejectsAllWithIndividualFlags(a) == FlagValue(a, "all") /\ explicitMutation(a)

(***************************************************************************)
(* Control flow of runRelease after flag resolution: the port call that    *)
(* follows, given the action set, --force-retag and --dry-run.             *)
(***************************************************************************)
PcPushTag(a) == IF a.pushTag THEN "PushTag" ELSE "Finish"

\* PcPushHead of a run that never pushes the commit.
PcPushHeadSkipped(a) == PcPushTag(a)

PcPushHead(a) == IF a.pushCommit THEN "PushHead" ELSE PcPushTag(a)

PcCreateTag(a) == IF a.tag THEN "CreateTag" ELSE PcPushHead(a)

\* PcCommit without the staged-changes check.
PcCommitSkipsCheck(a, dry) == IF a.commit THEN "Commit" ELSE PcCreateTag(a)

PcCommit(a, dry) ==
  IF a.commit
  THEN (IF dry /\ a.stageAll THEN "Commit" ELSE "HasStagedChanges")
  ELSE PcCreateTag(a)

\* PcStageAll that never stages.
PcStageAllSkipped(a, dry) == PcCommit(a, dry)

PcStageAll(a, dry) == IF a.stageAll THEN "StageAll" ELSE PcCommit(a, dry)

\* PcTagPresent without the presence check of a push-only run.
PcTagPresentSkipped(a, dry) == PcStageAll(a, dry)

PcTagPresent(a, dry) ==
  IF a.pushTag /\ ~a.tag THEN "EnsureTagPresent" ELSE PcStageAll(a, dry)

\* PcPushOnlyRetag that looks for the remote tag again in a run that
\* creates the tag.
PcPushOnlyRetagAlsoWithTag(a, force, dry) ==
  IF force /\ a.pushTag THEN "PushOnlyHasRemoteTag" ELSE PcTagPresent(a, dry)

\* PcPushOnlyRetag that looks for the remote tag whenever the run forces a
\* retag, also when the tag is not pushed.
PcPushOnlyRetagWithoutPush(a, force, dry) ==
  IF force /\ ~a.tag THEN "PushOnlyHasRemoteTag" ELSE PcTagPresent(a, dry)

PcPushOnlyRetag(a, force, dry) ==
  IF force /\ a.pushTag /\ ~a.tag THEN "PushOnlyHasRemoteTag" ELSE PcTagPresent(a, dry)

\* PcTagCheck of a run that retags whether or not --force-retag was given.
PcTagCheckAlwaysRetags(a, force, dry) ==
  IF a.tag
  THEN (IF a.pushTag THEN "HasRemoteTag" ELSE "HasLocalTag")
  ELSE PcPushOnlyRetag(a, force, dry)

\* PcTagCheck that leaves the tag checks out of a dry run.
PcTagCheckDryRunSkips(a, force, dry) ==
  IF a.tag /\ ~dry
  THEN (IF force
        THEN (IF a.pushTag THEN "HasRemoteTag" ELSE "HasLocalTag")
        ELSE "EnsureTagAbsent")
  ELSE PcPushOnlyRetag(a, force, dry)

\* PcTagCheck with the tag-absence check made only when the tag is pushed.
PcTagCheckSkipsAbsent(a, force, dry) ==
  IF a.tag
  THEN (IF force
        THEN (IF a.pushTag THEN "HasRemoteTag" ELSE "HasLocalTag")
        ELSE (IF a.pushTag THEN "EnsureTagAbsent" ELSE PcPushOnlyRetag(a, force, dry)))
  ELSE PcPushOnlyRetag(a, force, dry)

PcTagCheck(a, force, dry) ==
  IF a.tag
  THEN (IF force
        THEN (IF a.pushTag THEN "HasRemoteTag" ELSE "HasLocalTag")
        ELSE "EnsureTagAbsent")
  ELSE PcPushOnlyRetag(a, force, dry)

\* needsRemote that forgets the tag push.
needsRemoteCommitOnly(a) == a.pushCommit

needsRemote(a) == a.pushCommit \/ a.pushTag

PcAfterRepo(a, force, dry) ==
  IF needsRemote(a) THEN "EnsureRemote" ELSE PcTagCheck(a, force, dry)

(***************************************************************************)
(* The changelog parser (internal/changelog/changelog.go).  A line is a    *)
(* sequence of characters, a changelog a sequence of lines.                *)
(***************************************************************************)
\* The characters \s, [0-9] and [0-9A-Za-z.-] of headerRegex stand for.
White == {" ", "\t"}

Digit == {"0", "1", "2", "3", "4", "5", "6", "7", "8", "9"}

Letter ==
  {"a", "b", "c", "d", "e", "f", "g", "h", "i", "j", "k", "l", "m",
   "n", "o", "p", "q", "r", "s", "t", "u", "v", "w", "x", "y", "z",
   "A", "B", "C", "D", "E", "F", "G", "H", "I", "J", "K", "L", "M",
   "N", "O", "P", "Q", "R", "S", "T", "U", "V", "W", "X", "Y", "Z"}

IdentChar == Digit \cup Letter \cup {".", "-"}

\* strings.TrimSpace, its two halves first.
RECURSIVE TrimLeft(_)
TrimLeft(s) ==
  IF s # << >> /\ Head(s) \in White THEN TrimLeft(Tail(s)) ELSE s

RECURSIVE TrimRight(_)
TrimRight(s) ==
  IF s # << >> /\ s[Len(s)] \in White
  THEN TrimRight(SubSeq(s, 1, Len(s) - 1))
  ELSE s

TrimSpace(s) == TrimRight(TrimLeft(s))

\* strings.HasPrefix
HasPrefix(s, prefix) ==
  Len(s) >= Len(prefix) /\ SubSeq(s, 1, Len(prefix)) = prefix

\* The string a sequence of characters spells.
RECURSIVE Text(_)
Text(s) == IF s = << >> THEN "" ELSE Head(s) \o Text(Tail(s))

\* strings.Join
RECURSIVE Join(_, _)
Join(elems, sep) ==
  IF elems = << >> THEN << >>
  ELSE IF Len(elems) = 1 THEN elems[1]
  ELSE elems[1] \o sep \o Join(Tail(elems), sep)

AllIn(s, class) == \A i \in 1..Len(s) : s[i] \in class

\* Where the digits of s that start at position i end (i - 1 when there is
\* none): [0-9]+ is greedy.
RECURSIVE DigitsEnd(_, _)
DigitsEnd(s, i) ==
  IF i <= Len(s) /\ s[i] \in Digit THEN DigitsEnd(s, i + 1) ELSE i - 1

\* A dot and digits follow position k of s.
DotNumberAfter(s, k) ==
  k + 2 <= Len(s) /\ s[k + 1] = "." /\ s[k + 2] \in Digit

\* Where [0-9]+(?:\.[0-9]+){1,2} ends at the start of s, 0 when it does not
\* match: the second dotted number is taken when it is there.
CoreEnd(s) ==
  LET a == DigitsEnd(s, 1)
  IN IF a = 0 \/ ~DotNumberAfter(s, a) THEN 0
     ELSE LET b == DigitsEnd(s, a + 2)
          IN IF DotNumberAfter(s, b) THEN DigitsEnd(s, b + 2) ELSE b

\* -[0-9A-Za-z.-]+ and \+[0-9A-Za-z.-]+
IsTagged(s, mark) == Len(s) >= 2 /\ s[1] = mark /\ AllIn(Tail(s), IdentChar)

\* (?:-[0-9A-Za-z.-]+)?(?:\+[0-9A-Za-z.-]+)? matches all of t.
IsVersionSuffix(t) ==
  LET plus == {k \in 1..Len(t) : t[k] = "+"}
      k == IF plus = {} THEN Len(t) + 1 ELSE CHOOSE x \in plus : \A y \in plus : x <= y
  IN /\ k = 1 \/ IsTagged(SubSeq(t, 1, k - 1), "-")
     /\ k > Len(t) \/ IsTagged(SubSeq(t, k, Len(t)), "+")

\* The first group of headerRegex matches all of s:
\* [0-9]+(?:\.[0-9]+){1,2}(?:-[0-9A-Za-z.-]+)?(?:\+[0-9A-Za-z.-]+)?
IsVersionText(s) ==
  LET c == CoreEnd(s)
  IN c > 0 /\ IsVersionSuffix(SubSeq(s, c + 1, Len(s)))

\* IsSeparated of a pattern that wants text other than whitespace after
\* the dash.
IsSeparatedNeedsText(t) ==
  LET u == TrimLeft(t) IN Len(u) >= 2 /\ u[1] = "-" /\ TrimLeft(Tail(u)) # << >>

\* \s*-\s*(.+)$ matches t: a dash after optional whitespace, and at least
\* one character after the dash.
IsSeparated(t) ==
  LET u == TrimLeft(t) IN Len(u) >= 2 /\ u[1] = "-"

\* The second group of headerRegex when \s*-\s*(.+)$ matches t: the greedy
\* \s* after the dash takes all the whitespace, and gives the last one back
\* when nothing else is left for (.+).
SummaryGroup(t) ==
  LET after == Tail(TrimLeft(t))
      text == TrimLeft(after)
  IN IF text = << >> THEN <<after[Len(after)]>> ELSE text

NoMatch == << >>

\* headerRegex with \s+ after the #: whitespace is required there.
headerRegexNeedsSpace(line) ==
  IF ~HasPrefix(line, <<"#">>) \/ Len(line) < 2 THEN NoMatch
  ELSE IF line[2] \notin White THEN NoMatch
  ELSE LET body == TrimLeft(Tail(line))
           ends == {e \in 1..Len(body) :
                      /\ IsSeparated(SubSeq(body, e + 1, Len(body)))
                      /\ IsVersionText(SubSeq(body, 1, e))}
       IN IF ends = {} THEN NoMatch
          ELSE LET e == CHOOSE x \in ends : \A y \in ends : y <= x
               IN <<line, SubSeq(body, 1, e),
                    SummaryGroup(SubSeq(body, e + 1, Len(body)))>>

\* headerRegex.FindStringSubmatch(line): the line and its two groups, or
\* nil.  Every quantifier of the version group is greedy, so the group is
\* the longest version text the rest of the line still matches after.
headerRegex(line) ==
  IF ~HasPrefix(line, <<"#">>) THEN NoMatch
  ELSE LET body == TrimLeft(Tail(line))
           ends == {e \in 1..Len(body) :
                      /\ IsSeparated(SubSeq(body, e + 1, Len(body)))
                      /\ IsVersionText(SubSeq(body, 1, e))}
       IN IF ends = {} THEN NoMatch
          ELSE LET e == CHOOSE x \in ends : \A y \in ends : y <= x
               IN <<line, SubSeq(body, 1, e),
                    SummaryGroup(SubSeq(body, e + 1, Len(body)))>>

\* var entry Entry; collecting := false; var bulletLines []string
Entry(version, summary, description) ==
  [Version |-> version, Summary |-> summary, Description |-> description]

ScanStart ==
  [entry |-> Entry(<< >>, << >>, << >>), collecting |-> FALSE, bulletLines |-> << >>]

\* CollectBullet that keeps the lines of prose as well.
CollectBulletKeepsProse(st, line) ==
  LET trimmed == TrimSpace(line)
  IN IF st.collecting /\ HasPrefix(trimmed, <<"-">>)
     THEN LET bullet == TrimSpace(Tail(trimmed))
          IN IF bullet # << >>
             THEN [st EXCEPT !.bulletLines = Append(@, <<"-", " ">> \o bullet)]
             ELSE st
     ELSE IF st.collecting /\ trimmed # << >>
     THEN [st EXCEPT !.bulletLines = Append(@, trimmed)]
     ELSE st

\* The body of the scanner loop for one line that is not a heading: a
\* bullet of the entry being collected is kept, without its dash and the
\* whitespace around it.
CollectBullet(st, line) ==
  LET trimmed == TrimSpace(line)
  IN IF st.collecting /\ HasPrefix(trimmed, <<"-">>)
     THEN LET bullet == TrimSpace(Tail(trimmed))
          IN IF bullet # << >>
             THEN [st EXCEPT !.bulletLines = Append(@, <<"-", " ">> \o bullet)]
             ELSE st
     ELSE st

RECURSIVE ScanFrom(_, _, _)

\* The loop ended by a heading line that is no release heading.
ScanFromStopsAtTitle(lines, i, st) ==
  IF i > Len(lines) THEN st
  ELSE IF HasPrefix(lines[i], <<"#">>)
  THEN LET matches == headerRegex(lines[i])
       IN IF matches = NoMatch THEN st
          ELSE IF ~st.collecting
          THEN ScanFrom(lines, i + 1,
                        [st EXCEPT !.entry.Version = TrimSpace(matches[2]),
                                   !.entry.Summary = TrimSpace(matches[3]),
                                   !.collecting = TRUE])
          ELSE st
  ELSE ScanFrom(lines, i + 1, CollectBullet(st, lines[i]))

\* The loop without its break at the next release heading.
ScanFromPastNextHeading(lines, i, st) ==
  IF i > Len(lines) THEN st
  ELSE IF HasPrefix(lines[i], <<"#">>)
  THEN LET matches == headerRegex(lines[i])
       IN IF matches = NoMatch \/ st.collecting THEN ScanFrom(lines, i + 1, st)
          ELSE ScanFrom(lines, i + 1,
                        [st EXCEPT !.entry.Version = TrimSpace(matches[2]),
                                   !.entry.Summary = TrimSpace(matches[3]),
                                   !.collecting = TRUE])
  ELSE ScanFrom(lines, i + 1, CollectBullet(st, lines[i]))

\* for scanner.Scan() { ... } from line i on.
ScanFrom(lines, i, st) ==
  IF i > Len(lines) THEN st
  ELSE IF HasPrefix(lines[i], <<"#">>)
  THEN LET matches == headerRegex(lines[i])
       IN IF matches = NoMatch THEN ScanFrom(lines, i + 1, st)
          ELSE IF ~st.collecting
          THEN ScanFrom(lines, i + 1,
                        [st EXCEPT !.entry.Version = TrimSpace(matches[2]),
                                   !.entry.Summary = TrimSpace(matches[3]),
                                   !.collecting = TRUE])
          ELSE st
  ELSE ScanFrom(lines, i + 1, CollectBullet(st, lines[i]))

OpenFailedMsg == "failed to open changelog"

BadEntryMsg == "unable to parse latest release entry (expected # <version> - <summary>)"

\* A changelog file at a path: whether os.Open succeeds, and its lines.
File(readable, lines) == [readable |-> readable, lines |-> lines]

NoEntry == Entry(<< >>, << >>, << >>)

\* ParseLatest without the check of the summary.
ParseLatestWithoutSummaryCheck(path) ==
  IF ~path.readable
  THEN [entry |-> NoEntry, err |-> ParseError(OpenFailedMsg)]
  ELSE LET st == ScanFrom(path.lines, 1, ScanStart)
       IN IF ~st.collecting
          THEN [entry |-> NoEntry, err |-> ParseError(BadEntryMsg)]
          ELSE [entry |-> [st.entry EXCEPT !.Description = Join(st.bulletLines, <<"\n">>)],
                err |-> NoErr]

ParseLatest(path) ==
  IF ~path.readable
  THEN [entry |-> NoEntry, err |-> ParseError(OpenFailedMsg)]
  ELSE LET st == ScanFrom(path.lines, 1, ScanStart)
       IN IF ~st.collecting \/ st.entry.Summary = << >>
          THEN [entry |-> NoEntry, err |-> ParseError(BadEntryMsg)]
          ELSE [entry |-> [st.entry EXCEPT !.Description = Join(st.bulletLines, <<"\n">>)],
                err |-> NoErr]

\* The changelog of the app tests (writeChangelog), and no changelog at all.
TestChangelog ==
  File(TRUE, <<<<"#", " ", "1", ".", "2", ".", "3", " ", "-", " ", "R", "e", "l", "e", "a", "s", "e", " ", "t", "i", "t", "l", "e">>,
               << >>,
               <<"-", " ", "F", "i", "r", "s", "t", " ", "c", "h", "a", "n", "g", "e">>>>)

MissingChangelog == File(FALSE, << >>)

\* The changelogs the runs find in the work tree.
MainFiles == {TestChangelog, MissingChangelog}

\* What ParseLatest gives for each of them.
MainParses == [f \in MainFiles |-> ParseLatest(f)]

(***************************************************************************)
(* The lines and the changelogs the parser is checked on.                   *)
(***************************************************************************)
\* "# Log": a heading that is no release heading
TitleLine == <<"#", " ", "L", "o", "g">>

\* "# 1.2 - a": a release heading
HeadingLine == <<"#", " ", "1", ".", "2", " ", "-", " ", "a">>

\* "# 2.0.1-rc+b - b ": a release heading with a pre-release, a build and a trailing blank
OtherHeadingLine == <<"#", " ", "2", ".", "0", ".", "1", "-", "r", "c", "+", "b", " ", "-", " ", "b", " ">>

\* "#1.2 - c": no whitespace after the #
NoSpaceHeadingLine == <<"#", "1", ".", "2", " ", "-", " ", "c">>

\* "## 1.2 - d": a second-level heading
SubHeadingLine == <<"#", "#", " ", "1", ".", "2", " ", "-", " ", "d">>

\* "# 1.2 - ": nothing but whitespace after the separator
BlankSummaryLine == <<"#", " ", "1", ".", "2", " ", "-", " ">>

\* "# 1.2 -": nothing at all after the separator
EmptySummaryLine == <<"#", " ", "1", ".", "2", " ", "-">>

\* "- x": a bullet
BulletLine == <<"-", " ", "x">>

\* "  -  y ": an indented bullet with whitespace around its text
IndentedBulletLine == <<" ", " ", "-", " ", " ", "y", " ">>

\* "- ": a bullet without text
EmptyBulletLine == <<"-", " ">>

\* "p": prose
ProseLine == <<"p">>

\* "": a blank line
BlankLine == << >>

ChangelogLines ==
  {TitleLine, HeadingLine, OtherHeadingLine, NoSpaceHeadingLine, SubHeadingLine,
   BlankSummaryLine, BulletLine, IndentedBulletLine, EmptyBulletLine, ProseLine,
   BlankLine}

EntryLines == {HeadingLine, OtherHeadingLine, BulletLine, IndentedBulletLine, ProseLine}

\* Headings with and without a summary, and a bullet.
SummaryLines == {HeadingLine, BlankSummaryLine, EmptySummaryLine, BulletLine}

\* The sequences of at most n of the given lines.
DocsOver(lines, n) == UNION {[1..k -> lines] : k \in 0..n}

ParseFiles ==
  {File(TRUE, d) : d \in DocsOver(ChangelogLines, MaxLines)
                          \cup DocsOver(EntryLines, MaxEntryLines)
                          \cup DocsOver(SummaryLines, MaxLines)}
    \cup {MissingChangelog}

(***************************************************************************)
(* State of a run.                                                         *)
(*   pc          "idle", "resolve", the port call that is next, "done"     *)
(*   args        the command line of the run                               *)
(*   dryRun, forceRetag, actions   cfg.dryRun, forceRetag, actions         *)
(*   createdTag  the local of runRelease                                   *)
(*   calls       the port calls issued so far, in order (as fakeGit.calls  *)
(*               of the app tests): name, arguments, whether the call     *)
(*               succeeded and, for a query, its answer                    *)
(*   result      the error run returns and the closing line on stdout     *)
(*   repo, repo0 the repository now and when the run started               *)
(*   file        the changelog file in the work tree                       *)
(*   entry       the entry the run parsed from the changelog               *)
(*   parses      how many times the run has called changelog.ParseLatest   *)
(*   lastTagRun  history, kept by SpecRuns: how the earlier run that made  *)
(*               the local release tag ended ("released",                  *)
(*               "pushTagFailed"), "none" when there is no such tag or no  *)
(*               such run                                                  *)
(***************************************************************************)
\* The messages of the two tag preflight errors of runRelease.
TagExistsMsg == "no new changelog version to release: tag already exists (update changelog)"

CreateTagFirstMsg == "cannot push tag: create it first with --tag (or use default mdrelease/--all)"

Running == [err |-> NoErr, out |-> ""]

Call(op, arg, res) == [op |-> op, arg |-> arg, ok |-> res.err = NoErr, val |-> res.val]

\* return err
Return(err, out) ==
  /\ pc' = "done"
  /\ result' = [err |-> err, out |-> out]

\* Step of a run that goes on after a failed call.
StepGoesOn(op, arg, res, onErr, next) ==
  /\ calls' = Append(calls, Call(op, arg, res))
  /\ repo' = res.repo
  /\ pc' = next
  /\ result' = result
  /\ UNCHANGED <<args, dryRun, forceRetag, actions, repo0, file, entry, parses, lastTagRun>>

\* One port call of runRelease: the call is recorded, the repository is
\* what the port made of it, and the run returns onErr when the call
\* failed and goes on to next otherwise.
Step(op, arg, res, onErr, next) ==
  /\ calls' = Append(calls, Call(op, arg, res))
  /\ repo' = res.repo
  /\ IF res.err # NoErr
     THEN Return(onErr, "")
     ELSE pc' = next /\ result' = result
  /\ UNCHANGED <<args, dryRun, forceRetag, actions, repo0, file, entry, parses, lastTagRun>>

\* A run that commits starts only while the commit counter is under its bound.
WithinBounds(r, a) ==
  (ResolveActions(a).commit /\ ~a.dryRun) => r.ahead < MaxCommits

Init ==
  /\ pc = "idle"
  /\ args = NoArgs
  /\ dryRun = FALSE
  /\ forceRetag = FALSE
  /\ actions = NoActions
  /\ createdTag = FALSE
  /\ calls = << >>
  /\ result = Running
  /\ repo \in InitRepos
  /\ repo0 = repo
  /\ file \in MainFiles
  /\ entry = NoEntry
  /\ parses = 0
  /\ lastTagRun = "none"

\* Between runs the developer edits files of the work tree.
EditWorkTree ==
  /\ pc = "idle"
  /\ repo.isRepo
  /\ ~repo.dirty
  /\ repo' = [repo EXCEPT !.dirty = TRUE]
  /\ repo0' = repo'
  /\ UNCHANGED <<pc, args, dryRun, forceRetag, actions, createdTag, calls, result,
                 file, entry, parses, lastTagRun>>

\* run -> runRelease: the flags are parsed (fs.Parse), which sets
\* cfg.dryRun and forceRetag; arguments left over are a usage error.
StartRun ==
  /\ pc = "idle"
  /\ \E a \in RunArgs \cup PositionalArgs :
       /\ WithinBounds(repo, a)
       /\ args' = a
       /\ dryRun' = a.dryRun
       /\ forceRetag' = a.forceRetag
       /\ IF a.positional
          THEN Return(usageError("mdrelease does not accept positional arguments (use subcommands: check, version)"), "")
          ELSE pc' = "resolve" /\ result' = result
  /\ UNCHANGED <<actions, createdTag, calls, repo, repo0, file, entry, parses, lastTagRun>>

\* ParseThen of a run that goes on without an entry.
ParseThenGoesOn(next) ==
  LET parsed == ParseLatest(file)
  IN /\ entry' = parsed.entry
     /\ parses' = parses + 1
     /\ pc' = next
     /\ result' = result

\* entry, err := changelog.ParseLatest(path), and return err on an error:
\* what the three commands do once their flags are settled.
ParseThen(next) ==
  LET parsed == ParseLatest(file)
  IN /\ entry' = parsed.entry
     /\ parses' = parses + 1
     /\ IF parsed.err # NoErr
        THEN Return(parsed.err, "")
        ELSE pc' = next /\ result' = result

\* runRelease up to git := d.newGit(...): the conflict check, the action
\* set, then the changelog is parsed.
Resolve ==
  /\ pc = "resolve"
  /\ \/ /\ RejectsAllWithIndividualFlags(args)
        /\ Return(usageError("--all cannot be combined with individual release action flags"), "")
        /\ UNCHANGED <<actions, entry, parses>>
     \/ /\ ~RejectsAllWithIndividualFlags(args)
        /\ actions' = ResolveActions(args)
        /\ ParseThen("EnsureRepo")
  /\ UNCHANGED <<args, dryRun, forceRetag, createdTag, calls, repo, repo0, file, lastTagRun>>

(***************************************************************************)
(* The port calls of runRelease, in the order of the code.                 *)
(***************************************************************************)
\* DoEnsureRepo of a run that goes on when the directory is no repository.
DoEnsureRepoGoesOn ==
  /\ pc = "EnsureRepo"
  /\ LET res == EnsureRepo(repo)
     IN /\ calls' = Append(calls, Call("EnsureRepo", << >>, res))
        /\ repo' = res.repo
        /\ pc' = PcAfterRepo(actions, forceRetag, dryRun)
        /\ result' = result
  /\ UNCHANGED <<args, dryRun, forceRetag, actions, repo0, createdTag, file, entry, parses, lastTagRun>>

DoEnsureRepo ==
  /\ pc = "EnsureRepo"
  /\ LET res == EnsureRepo(repo)
     IN Step("EnsureRepo", << >>, res, res.err, PcAfterRepo(actions, forceRetag, dryRun))
  /\ UNCHANGED createdTag

DoEnsureRemote ==
  /\ pc = "EnsureRemote"
  /\ LET res == EnsureRemote(repo, DefaultRemote)
     IN Step("EnsureRemote", <<DefaultRemote>>, res, res.err, "FetchRemote")
  /\ UNCHANGED createdTag

DoFetchRemote ==
  /\ pc = "FetchRemote"
  /\ \E fail \in BOOLEAN :
       LET res == FetchRemote(repo, DefaultRemote, dryRun, fail)
       IN Step("FetchRemote", <<DefaultRemote>>, res, res.err, "PullFFOnly")
  /\ UNCHANGED createdTag

DoPullFFOnly ==
  /\ pc = "PullFFOnly"
  /\ \E fail \in BOOLEAN :
       LET res == PullFFOnly(repo, DefaultRemote, dryRun, fail)
       IN Step("PullFFOnly", <<DefaultRemote>>, res, res.err,
               PcTagCheck(actions, forceRetag, dryRun))
  /\ UNCHANGED createdTag

\* DoHasRemoteTag of a run that deletes the remote tag whatever the answer.
DoHasRemoteTagAlwaysDeletes ==
  /\ pc = "HasRemoteTag"
  /\ \E fail \in BOOLEAN :
       LET res == HasRemoteTag(repo, DefaultRemote, ReleaseTag, fail)
       IN Step("HasRemoteTag", <<DefaultRemote, ReleaseTag>>, res, res.err,
               "DeleteRemoteTag")
  /\ UNCHANGED createdTag

\* if actions.tag { if forceRetag { if actions.pushTag { HasRemoteTag ...
DoHasRemoteTag ==
  /\ pc = "HasRemoteTag"
  /\ \E fail \in BOOLEAN :
       LET res == HasRemoteTag(repo, DefaultRemote, ReleaseTag, fail)
       IN Step("HasRemoteTag", <<DefaultRemote, ReleaseTag>>, res, res.err,
               IF res.val THEN "DeleteRemoteTag" ELSE "HasLocalTag")
  /\ UNCHANGED createdTag

DoDeleteRemoteTag ==
  /\ pc = "DeleteRemoteTag"
  /\ \E fail \in BOOLEAN :
       LET res == DeleteRemoteTag(repo, DefaultRemote, ReleaseTag, dryRun, fail)
       IN Step("DeleteRemoteTag", <<DefaultRemote, ReleaseTag>>, res, res.err, "HasLocalTag")
  /\ UNCHANGED createdTag

DoHasLocalTag ==
  /\ pc = "HasLocalTag"
  /\ \E fail \in BOOLEAN :
       LET res == HasLocalTag(repo, ReleaseTag, fail)
       IN Step("HasLocalTag", <<ReleaseTag>>, res, res.err,
               IF res.val THEN "DeleteLocalTag"
               ELSE PcPushOnlyRetag(actions, forceRetag, dryRun))
  /\ UNCHANGED createdTag

DoDeleteLocalTag ==
  /\ pc = "DeleteLocalTag"
  /\ \E fail \in BOOLEAN :
       LET res == DeleteLocalTag(repo, ReleaseTag, dryRun, fail)
       IN Step("DeleteLocalTag", <<ReleaseTag>>, res, res.err,
               PcPushOnlyRetag(actions, forceRetag, dryRun))
  /\ UNCHANGED createdTag

\* DoEnsureTagAbsent of a run that goes on when the tag is there.
DoEnsureTagAbsentGoesOn ==
  /\ pc = "EnsureTagAbsent"
  /\ LET res == EnsureTagAbsent(repo, ReleaseTag)
     IN StepGoesOn("EnsureTagAbsent", <<ReleaseTag>>, res,
                   preflightError(TagExistsMsg),
                   PcPushOnlyRetag(actions, forceRetag, dryRun))
  /\ UNCHANGED createdTag

\* ... } else { EnsureTagAbsent: any error becomes the preflight error }
DoEnsureTagAbsent ==
  /\ pc = "EnsureTagAbsent"
  /\ LET res == EnsureTagAbsent(repo, ReleaseTag)
     IN Step("EnsureTagAbsent", <<ReleaseTag>>, res,
             preflightError(TagExistsMsg),
             PcPushOnlyRetag(actions, forceRetag, dryRun))
  /\ UNCHANGED createdTag

\* if forceRetag && actions.pushTag && !actions.tag { HasRemoteTag ...
DoPushOnlyHasRemoteTag ==
  /\ pc = "PushOnlyHasRemoteTag"
  /\ \E fail \in BOOLEAN :
       LET res == HasRemoteTag(repo, DefaultRemote, ReleaseTag, fail)
       IN Step("HasRemoteTag", <<DefaultRemote, ReleaseTag>>, res, res.err,
               IF res.val THEN "PushOnlyDeleteRemoteTag"
               ELSE PcTagPresent(actions, dryRun))
  /\ UNCHANGED createdTag

DoPushOnlyDeleteRemoteTag ==
  /\ pc = "PushOnlyDeleteRemoteTag"
  /\ \E fail \in BOOLEAN :
       LET res == DeleteRemoteTag(repo, DefaultRemote, ReleaseTag, dryRun, fail)
       IN Step("DeleteRemoteTag", <<DefaultRemote, ReleaseTag>>, res, res.err,
               PcTagPresent(actions, dryRun))
  /\ UNCHANGED createdTag

\* if actions.pushTag && !actions.tag { EnsureTagPresent }
DoEnsureTagPresent ==
  /\ pc = "EnsureTagPresent"
  /\ LET res == EnsureTagPresent(repo, ReleaseTag)
     IN Step("EnsureTagPresent", <<ReleaseTag>>, res,
             preflightError(CreateTagFirstMsg),
             PcStageAll(actions, dryRun))
  /\ UNCHANGED createdTag

DoStageAll ==
  /\ pc = "StageAll"
  /\ \E fail \in BOOLEAN :
       LET res == StageAll(repo, dryRun, fail)
       IN Step("StageAll", << >>, res, res.err, PcCommit(actions, dryRun))
  /\ UNCHANGED createdTag

\* hasStaged, err := git.HasStagedChanges(); if !hasStaged { preflight }
DoHasStagedChanges ==
  /\ pc = "HasStagedChanges"
  /\ \E fail \in BOOLEAN :
       LET res == HasStagedChanges(repo, fail)
       IN /\ calls' = Append(calls, Call("HasStagedChanges", << >>, res))
          /\ repo' = res.repo
          /\ IF res.err # NoErr THEN Return(res.err, "")
             ELSE IF ~res.val
             THEN Return(preflightError(IF actions.stageAll
                                        THEN "no changes to release after staging"
                                        ELSE "no staged changes to commit"), "")
             ELSE pc' = "Commit" /\ result' = result
  /\ UNCHANGED <<args, dryRun, forceRetag, actions, repo0, createdTag, file, entry, parses, lastTagRun>>

\* git.Commit(entry.Summary, entry.Description)
DoCommit ==
  /\ pc = "Commit"
  /\ \E fail \in BOOLEAN :
       LET res == Commit(repo, dryRun, fail)
       IN Step("Commit", <<Text(entry.Summary), Text(entry.Description)>>, res, res.err,
               PcCreateTag(actions))
  /\ UNCHANGED createdTag

DoCreateTag ==
  /\ pc = "CreateTag"
  /\ \E fail \in BOOLEAN :
       LET res == CreateTag(repo, ReleaseTag, dryRun, fail)
       IN /\ Step("CreateTag", <<ReleaseTag>>, res, res.err, PcPushHead(actions))
          /\ createdTag' = (res.err = NoErr)

DoPushHead ==
  /\ pc = "PushHead"
  /\ \E fail \in BOOLEAN :
       LET res == PushHead(repo, DefaultRemote, dryRun, fail)
       IN Step("PushHead", <<DefaultRemote>>, res, res.err, PcPushTag(actions))
  /\ UNCHANGED createdTag

\* DoPushTag of a run that takes back the tag it made when the push fails.
DoPushTagRollsBack ==
  /\ pc = "PushTag"
  /\ \E fail \in BOOLEAN :
       LET pushed == PushTag(repo, DefaultRemote, ReleaseTag, dryRun, fail)
           res == IF pushed.err # NoErr /\ createdTag
                  THEN [pushed EXCEPT !.repo.localTags = @ \ {ReleaseTag}]
                  ELSE pushed
       IN Step("PushTag", <<DefaultRemote, ReleaseTag>>, res,
               IF createdTag THEN WrapCreatedLocally(res.err) ELSE res.err,
               "Finish")
  /\ UNCHANGED createdTag

\* a PushTag failure after a fresh CreateTag is wrapped with the remediation
DoPushTag ==
  /\ pc = "PushTag"
  /\ \E fail \in BOOLEAN :
       LET res == PushTag(repo, DefaultRemote, ReleaseTag, dryRun, fail)
       IN Step("PushTag", <<DefaultRemote, ReleaseTag>>, res,
               IF createdTag THEN WrapCreatedLocally(res.err) ELSE res.err,
               "Finish")
  /\ UNCHANGED createdTag

\* "Dry-run complete." or "Release complete: ..."; return nil
Finish ==
  /\ pc = "Finish"
  /\ Return(NoErr, IF dryRun THEN "Dry-run complete." ELSE "Release complete")
  /\ UNCHANGED <<args, dryRun, forceRetag, actions, createdTag, calls, repo, repo0,
                 file, entry, parses, lastTagRun>>

\* What is known of the local release tag once a run has ended: nothing
\* when the tag is not there; when the run made the tag, whether the run
\* went through or failed at PushTag; what was known before when the run
\* left the tag as it was.
TagRunOutcome ==
  IF ReleaseTag \notin repo.localTags THEN "none"
  ELSE IF createdTag /\ ~dryRun
  THEN (IF result.err = NoErr THEN "released"
        ELSE IF calls[Len(calls)].op = "PushTag" THEN "pushTagFailed"
        ELSE "none")
  ELSE lastTagRun

\* The process exits: nothing of the run is left but the repository.
ProcessExit ==
  /\ pc = "done"
  /\ pc' = "idle"
  /\ args' = NoArgs
  /\ dryRun' = FALSE
  /\ forceRetag' = FALSE
  /\ actions' = NoActions
  /\ createdTag' = FALSE
  /\ calls' = << >>
  /\ result' = Running
  /\ repo0' = repo
  /\ entry' = NoEntry
  /\ parses' = 0
  /\ UNCHANGED <<repo, file>>

\* The process exits; the next run starts from the repository as it is.
Exit == ProcessExit /\ UNCHANGED lastTagRun

\* The same, with what the run did to the release tag kept for the
\* properties of the runs that follow.
ExitRemembered == ProcessExit /\ lastTagRun' = TagRunOutcome

(***************************************************************************)
(* The other commands of run: check, version, and an unknown command.      *)
(***************************************************************************)
\* run -> runCheck up to git := d.newGit(...): the flags, then the
\* changelog is parsed.
StartCheck ==
  /\ pc = "idle"
  /\ \E a \in CheckArgs :
       /\ args' = a
       /\ dryRun' = a.dryRun
       /\ IF a.positional
          THEN /\ Return(usageError("check does not accept positional arguments"), "")
               /\ UNCHANGED <<entry, parses>>
          ELSE ParseThen("CheckEnsureRepo")
  /\ UNCHANGED <<forceRetag, actions, createdTag, calls, repo, repo0, file, lastTagRun>>

DoCheckEnsureRepo ==
  /\ pc = "CheckEnsureRepo"
  /\ LET res == EnsureRepo(repo)
     IN Step("EnsureRepo", << >>, res, res.err, "CheckEnsureRemote")
  /\ UNCHANGED createdTag

\* DoCheckEnsureRemote of a check that fetches the tags in a dry run too.
DoCheckEnsureRemoteAlwaysFetches ==
  /\ pc = "CheckEnsureRemote"
  /\ LET res == EnsureRemote(repo, DefaultRemote)
     IN Step("EnsureRemote", <<DefaultRemote>>, res, res.err, "CheckFetchTags")
  /\ UNCHANGED createdTag

\* if cfg.dryRun { "Fetch tags: skipped in --dry-run" } else { FetchTags }
DoCheckEnsureRemote ==
  /\ pc = "CheckEnsureRemote"
  /\ LET res == EnsureRemote(repo, DefaultRemote)
     IN Step("EnsureRemote", <<DefaultRemote>>, res, res.err,
             IF dryRun THEN "CheckEnsureTagAbsent" ELSE "CheckFetchTags")
  /\ UNCHANGED createdTag

DoCheckFetchTags ==
  /\ pc = "CheckFetchTags"
  /\ \E fail \in BOOLEAN :
       LET res == FetchTags(repo, dryRun, fail)
       IN Step("FetchTags", << >>, res, res.err, "CheckEnsureTagAbsent")
  /\ UNCHANGED createdTag

DoCheckEnsureTagAbsent ==
  /\ pc = "CheckEnsureTagAbsent"
  /\ LET res == EnsureTagAbsent(repo, ReleaseTag)
     IN Step("EnsureTagAbsent", <<ReleaseTag>>, res,
             preflightError(TagExistsMsg), "CheckPassed")
  /\ UNCHANGED createdTag

CheckPassed ==
  /\ pc = "CheckPassed"
  /\ Return(NoErr, "Check passed.")
  /\ UNCHANGED <<args, dryRun, forceRetag, actions, createdTag, calls, repo, repo0,
                 file, entry, parses, lastTagRun>>

\* run -> runRepoVersion up to the parse of the changelog.
StartVersion ==
  /\ pc = "idle"
  /\ \E a \in VersionArgs :
       /\ args' = a
       /\ IF a.positional
          THEN /\ Return(usageError("version does not accept positional arguments"), "")
               /\ UNCHANGED <<entry, parses>>
          ELSE ParseThen("PrintVersion")
  /\ UNCHANGED <<dryRun, forceRetag, actions, createdTag, calls, repo, repo0, file, lastTagRun>>

\* fmt.Fprintf(stdout, "%s\n", entry.Version)
PrintVersion ==
  /\ pc = "PrintVersion"
  /\ Return(NoErr, Text(entry.Version))
  /\ UNCHANGED <<args, dryRun, forceRetag, actions, createdTag, calls, repo, repo0,
                 file, entry, parses, lastTagRun>>

\* --version taken for the version subcommand.
StartToolVersionAsAlias ==
  /\ pc = "idle"
  /\ \E a \in ToolVersionArgs :
       /\ args' = a
       /\ ParseThen("PrintVersion")
  /\ UNCHANGED <<dryRun, forceRetag, actions, createdTag, calls, repo, repo0, file, lastTagRun>>

\* run -> runToolVersion: the first argument is --version (or -version);
\* anything after it is a usage error, the changelog is not read.
StartToolVersion ==
  /\ pc = "idle"
  /\ \E a \in ToolVersionArgs :
       /\ args' = a
       /\ IF a.positional
          THEN Return(usageError("--version does not accept additional arguments"), "")
          ELSE Return(NoErr, toolName \o " version " \o ToolVersion)
  /\ UNCHANGED <<dryRun, forceRetag, actions, createdTag, calls, repo, repo0,
                 file, entry, parses, lastTagRun>>

\* run: the first argument is not a flag and names no command.
UnknownCommand ==
  /\ pc = "idle"
  /\ \E a \in UnknownArgs : args' = a
  /\ Return(usageError("unknown command"), "")
  /\ UNCHANGED <<dryRun, forceRetag, actions, createdTag, calls, repo, repo0,
                 file, entry, parses, lastTagRun>>

Next ==
  \/ EditWorkTree
  \/ StartRun
  \/ Resolve
  \/ DoEnsureRepo
  \/ DoEnsureRemote
  \/ DoFetchRemote
  \/ DoPullFFOnly
  \/ DoHasRemoteTag
  \/ DoDeleteRemoteTag
  \/ DoHasLocalTag
  \/ DoDeleteLocalTag
  \/ DoEnsureTagAbsent
  \/ DoPushOnlyHasRemoteTag
  \/ DoPushOnlyDeleteRemoteTag
  \/ DoEnsureTagPresent
  \/ DoStageAll
  \/ DoHasStagedChanges
  \/ DoCommit
  \/ DoCreateTag
  \/ DoPushHead
  \/ DoPushTag
  \/ Finish
  \/ StartCheck
  \/ DoCheckEnsureRepo
  \/ DoCheckEnsureRemote
  \/ DoCheckFetchTags
  \/ DoCheckEnsureTagAbsent
  \/ CheckPassed
  \/ StartVersion
  \/ PrintVersion
  \/ StartToolVersion
  \/ UnknownCommand
  \/ Exit

Spec == Init /\ [][Next]_vars

(***************************************************************************)
(* Runs one after the other, each with the memory of what the runs before  *)
(* it did to the release tag.                                              *)
(***************************************************************************)
NextRuns ==
  \/ EditWorkTree
  \/ StartRun
  \/ Resolve
  \/ DoEnsureRepo
  \/ DoEnsureRemote
  \/ DoFetchRemote
  \/ DoPullFFOnly
  \/ DoHasRemoteTag
  \/ DoDeleteRemoteTag
  \/ DoHasLocalTag
  \/ DoDeleteLocalTag
  \/ DoEnsureTagAbsent
  \/ DoPushOnlyHasRemoteTag
  \/ DoPushOnlyDeleteRemoteTag
  \/ DoEnsureTagPresent
  \/ DoStageAll
  \/ DoHasStagedChanges
  \/ DoCommit
  \/ DoCreateTag
  \/ DoPushHead
  \/ DoPushTag
  \/ Finish
  \/ StartCheck
  \/ DoCheckEnsureRepo
  \/ DoCheckEnsureRemote
  \/ DoCheckFetchTags
  \/ DoCheckEnsureTagAbsent
  \/ CheckPassed
  \/ StartVersion
  \/ PrintVersion
  \/ StartToolVersion
  \/ UnknownCommand
  \/ ExitRemembered

SpecRuns == Init /\ [][NextRuns]_vars

(***************************************************************************)
(* Flag resolution on its own: every command line, with flags given as     *)
(* false too, is resolved.                                                 *)
(***************************************************************************)
InitArgs ==
  /\ pc = "resolve"
  /\ args \in AllArgs
  /\ dryRun = args.dryRun
  /\ forceRetag = args.forceRetag
  /\ actions = NoActions
  /\ createdTag = FALSE
  /\ calls = << >>
  /\ result = Running
  /\ repo \in {r \in InitRepos : r.hasRemote /\ r.dirty /\ ~r.staged /\ r.ahead = 0
                                  /\ ~r.behind /\ r.localTags = {} /\ r.branches = {}
                                  /\ r.remoteTags = {}}
  /\ repo0 = repo
  /\ file \in MainFiles
  /\ entry = NoEntry
  /\ parses = 0
  /\ lastTagRun = "none"

SpecArgs == InitArgs /\ [][Resolve]_vars

(***************************************************************************)
(* The parser on its own: mdrelease version on every changelog.            *)
(***************************************************************************)
InitParse ==
  /\ pc = "idle"
  /\ args = NoArgs
  /\ dryRun = FALSE
  /\ forceRetag = FALSE
  /\ actions = NoActions
  /\ createdTag = FALSE
  /\ calls = << >>
  /\ result = Running
  /\ repo \in {r \in InitRepos : r.hasRemote /\ r.dirty /\ ~r.staged /\ r.ahead = 0
                                  /\ ~r.behind /\ r.localTags = {} /\ r.branches = {}
                                  /\ r.remoteTags = {}}
  /\ repo0 = repo
  /\ file \in ParseFiles
  /\ entry = NoEntry
  /\ parses = 0
  /\ lastTagRun = "none"

NextParse ==
  \/ StartVersion
  \/ PrintVersion
  \/ StartToolVersion
  \/ Exit

SpecParse == InitParse /\ [][NextParse]_vars

TypeOK ==
  /\ pc \in {"idle", "resolve", "done", "Finish", "EnsureRepo", "EnsureRemote",
             "FetchRemote", "PullFFOnly", "HasRemoteTag", "DeleteRemoteTag",
             "HasLocalTag", "DeleteLocalTag", "EnsureTagAbsent",
             "PushOnlyHasRemoteTag", "PushOnlyDeleteRemoteTag", "EnsureTagPresent",
             "StageAll", "HasStagedChanges", "Commit", "CreateTag", "PushHead",
             "PushTag", "CheckEnsureRepo", "CheckEnsureRemote", "CheckFetchTags",
             "CheckEnsureTagAbsent", "CheckPassed", "PrintVersion"}
  /\ args \in AllArgs \cup PositionalArgs \cup CheckArgs \cup VersionArgs
              \cup ToolVersionArgs \cup UnknownArgs
  /\ file \in MainFiles
  /\ parses \in 0..1
  /\ repo \in InitRepos
  /\ lastTagRun \in {"none", "released", "pushTagFailed"}
  /\ lastTagRun # "none" => ReleaseTag \in repo0.localTags

(***************************************************************************)
(* Properties of release runs.                                             *)
(***************************************************************************)
Issued(op) == \E i \in 1..Len(calls) : calls[i].op = op

\* op(arg) was issued before the i-th call and succeeded.
SucceededBefore(op, arg, i) ==
  \E j \in 1..(i - 1) : calls[j].op = op /\ calls[j].arg = arg /\ calls[j].ok

MutatingOps ==
  {"StageAll", "Commit", "CreateTag", "PushHead", "PushTag"}

\* C1: in a dry run, whatever the action set, force-retag and the initial
\* repository, the repository (index, commits, local tags, remote tags,
\* remote branch) is at every point of the run what it was at its start.
C1_DryRunLeavesRepoUnchanged ==
  (pc # "idle" /\ dryRun) => repo = repo0

\* C1 witness: a dry run of the full pipeline with --force-retag has ended
\* after issuing both tag deletions and every mutating call, in a
\* repository where each of them had something to change.
C1_Witness ==
  /\ pc = "done"
  /\ dryRun
  /\ forceRetag
  /\ actions = FullPipeline
  /\ result.out = "Dry-run complete."
  /\ repo0.dirty
  /\ repo0.behind
  /\ ReleaseTag \in repo0.localTags
  /\ ReleaseTag \in repo0.remoteTags
  /\ Issued("DeleteRemoteTag")
  /\ Issued("DeleteLocalTag")
  /\ \A op \in MutatingOps : Issued(op)

\* C2 as stated: every CreateTag(t) of a run is preceded by a successful
\* EnsureTagAbsent(t) of that run, for every flag combination.
C2_AsStated ==
  \A i \in 1..Len(calls) :
    calls[i].op = "CreateTag" => SucceededBefore("EnsureTagAbsent", calls[i].arg, i)

\* C2 amended: every CreateTag(t) of a run without --force-retag is preceded
\* by a successful EnsureTagAbsent(t) of that run; with --force-retag it is
\* preceded by a successful HasLocalTag(t) instead and EnsureTagAbsent is
\* not issued.
C2_CreateTagAfterTagCheck ==
  \A i \in 1..Len(calls) :
    calls[i].op = "CreateTag" =>
      IF forceRetag
      THEN /\ SucceededBefore("HasLocalTag", calls[i].arg, i)
           /\ ~Issued("EnsureTagAbsent")
      ELSE SucceededBefore("EnsureTagAbsent", calls[i].arg, i)

\* C2 witness: a run without --force-retag has issued CreateTag.
C2_Witness ==
  /\ ~forceRetag
  /\ ~dryRun
  /\ Len(calls) > 0
  /\ calls[Len(calls)].op = "CreateTag"
  /\ calls[Len(calls)].ok
  /\ ReleaseTag \in repo.localTags

CallSigs == [i \in 1..Len(calls) |-> <<calls[i].op, calls[i].arg>>]

\* A default release run (no action flag, no --dry-run, no --force-retag)
\* has ended with every port call successful.
DefaultRunSucceeded ==
  /\ pc = "done"
  /\ args.cmd = "release"
  /\ ~explicitMutation(args)
  /\ ~dryRun
  /\ ~forceRetag
  /\ Len(calls) > 0
  /\ \A i \in 1..Len(calls) : calls[i].ok
  /\ result.err = NoErr

C5_PushTagFailureRemediation ==
  \A i \in 1..Len(calls) :
    (calls[i].op = "PushTag" /\ ~calls[i].ok) =>
      /\ i = Len(calls)
      /\ pc = "done"
      /\ result.err.note = SucceededBefore("CreateTag", <<ReleaseTag>>, i)
      /\ result.err.type = "GitError"
      /\ result.err.op = "push tag"
      /\ ExitCode(result.err) = ExitGit

\* C5 witness: PushTag has failed right after the tag was created in the
\* same run, and the error carries the remediation.
C5_Witness ==
  /\ pc = "done"
  /\ Len(calls) > 1
  /\ calls[Len(calls)].op = "PushTag"
  /\ ~calls[Len(calls)].ok
  /\ SucceededBefore("CreateTag", <<ReleaseTag>>, Len(calls))
  /\ ReleaseTag \in repo.localTags
  /\ ReleaseTag \notin repo.remoteTags
  /\ result.err.note

\* C6: in a run that is not a dry run, Commit is issued only after
\* HasStagedChanges was issued (after a successful StageAll when stageAll
\* is set) and answered true; when it answers false the run ends there
\* with the preflight error ("no changes to release after staging" with
\* stageAll, "no staged changes to commit" without) and no Commit,
\* CreateTag, PushHead or PushTag is issued.
C6_CommitNeedsStagedChanges ==
  ~dryRun =>
    /\ \A i \in 1..Len(calls) :
         calls[i].op = "Commit" =>
           \E j \in 1..(i - 1) :
             /\ calls[j].op = "HasStagedChanges" /\ calls[j].ok /\ calls[j].val
             /\ actions.stageAll =>
                  \E k \in 1..(j - 1) : calls[k].op = "StageAll" /\ calls[k].ok
    /\ \A j \in 1..Len(calls) :
         (calls[j].op = "HasStagedChanges" /\ calls[j].ok /\ ~calls[j].val) =>
           /\ j = Len(calls)
           /\ pc = "done"
           /\ result.err = preflightError(IF actions.stageAll
                                          THEN "no changes to release after staging"
                                          ELSE "no staged changes to commit")
           /\ ExitCode(result.err) = ExitPreflight
           /\ \A op \in {"Commit", "CreateTag", "PushHead", "PushTag"} : ~Issued(op)

\* C6 witness: the full pipeline has found nothing staged after StageAll
\* and has ended with the preflight error.
C6_Witness ==
  /\ pc = "done"
  /\ ~dryRun
  /\ actions = FullPipeline
  /\ Issued("StageAll")
  /\ calls[Len(calls)].op = "HasStagedChanges"
  /\ ~calls[Len(calls)].val
  /\ result.err = preflightError("no changes to release after staging")

\* A release run with tag set and no --force-retag has issued port calls
\* in a repository that had the release tag when the run started.
TagRunOnExistingTag ==
  /\ Len(calls) > 0
  /\ actions.tag
  /\ ~forceRetag
  /\ ReleaseTag \in repo0.localTags

\* C7 as stated: with tag set, no --force-retag and the release tag
\* existing locally, the run ends with the preflight error that tells the
\* operator to update the changelog version, and issues none of StageAll,
\* Commit, CreateTag, PushHead, PushTag.
C7_AsStated ==
  TagRunOnExistingTag =>
    /\ \A op \in MutatingOps : ~Issued(op)
    /\ pc = "done" => result.err = preflightError(TagExistsMsg)

\* C7 amended: with tag set, no --force-retag and the release tag existing
\* locally, the run issues none of StageAll, Commit, CreateTag, PushHead,
\* PushTag; it ends with the preflight error that tells the operator to
\* update the changelog version, unless a port call before the tag check
\* (EnsureRemote, FetchRemote, PullFFOnly of a push flow) failed, in which
\* case it ends with the GitError of that call.
C7_ExistingTagStopsRun ==
  TagRunOnExistingTag =>
    /\ \A op \in MutatingOps : ~Issued(op)
    /\ pc = "done" =>
         /\ ~calls[Len(calls)].ok
         /\ IF calls[Len(calls)].op = "EnsureTagAbsent"
            THEN /\ result.err = preflightError(TagExistsMsg)
                 /\ ExitCode(result.err) = ExitPreflight
            ELSE /\ calls[Len(calls)].op \in {"EnsureRemote", "FetchRemote", "PullFFOnly"}
                 /\ needsRemote(actions)
                 /\ result.err.type = "GitError"

\* C7 witness: the full pipeline has ended with the "already exists"
\* preflight error in a repository with changes to stage.
C7_Witness ==
  /\ pc = "done"
  /\ TagRunOnExistingTag
  /\ actions = FullPipeline
  /\ repo0.dirty
  /\ calls[Len(calls)].op = "EnsureTagAbsent"
  /\ result.err = preflightError(TagExistsMsg)

\* C8: in a run with pushTag set and tag unset that reaches the tag check
\* while the release tag does not exist locally, the check fails, the run
\* ends with the preflight error that tells the caller to create the tag
\* first, and none of StageAll, Commit, PushHead, PushTag is issued.
C8_PushOnlyNeedsLocalTag ==
  ( /\ actions.pushTag
    /\ ~actions.tag
    /\ ReleaseTag \notin repo.localTags
    /\ Issued("EnsureTagPresent") ) =>
    /\ pc = "done"
    /\ result.err = preflightError(CreateTagFirstMsg)
    /\ \A op \in {"StageAll", "Commit", "PushHead", "PushTag"} : ~Issued(op)

\* C9: every PushTag(remote, t) of a run is preceded by a successful
\* CreateTag(t) or a successful EnsureTagPresent(t) of that run.
C9_PushTagAfterCreateOrPresent ==
  \A i \in 1..Len(calls) :
    calls[i].op = "PushTag" =>
      \/ SucceededBefore("CreateTag", <<calls[i].arg[2]>>, i)
      \/ SucceededBefore("EnsureTagPresent", <<calls[i].arg[2]>>, i)

\* C9 witness: a push-only run has pushed a tag of an earlier run after
\* EnsureTagPresent succeeded, without creating it.
C9_Witness ==
  /\ pc = "done"
  /\ ~dryRun
  /\ ~actions.tag
  /\ ~Issued("CreateTag")
  /\ Len(calls) > 0
  /\ calls[Len(calls)].op = "PushTag"
  /\ calls[Len(calls)].ok
  /\ ReleaseTag \in repo0.localTags
  /\ ReleaseTag \notin repo0.remoteTags
  /\ ReleaseTag \in repo.remoteTags

\* C10: when no action flag is on the command line (whatever --all,
\* --dry-run and --force-retag), the resolved action set is the full
\* pipeline; when action flags are on the command line without --all, an
\* action is set exactly when its flag, or for the two pushes --push, was
\* given as true.
C10_ResolvedActions ==
  (pc \notin {"idle", "resolve"} /\ ~RejectsAllWithIndividualFlags(args)) =>
    /\ (\A n \in ActionFlags : args.flags[n] = "unset") => actions = FullPipeline
    /\ ((\E n \in ActionFlags : args.flags[n] # "unset") /\ args.flags["all"] # "true") =>
         /\ actions.stageAll = (args.flags["stage-all"] = "true")
         /\ actions.commit = (args.flags["commit"] = "true")
         /\ actions.tag = (args.flags["tag"] = "true")
         /\ actions.pushCommit = (args.flags["push-commit"] = "true" \/ args.flags["push"] = "true")
         /\ actions.pushTag = (args.flags["push-tag"] = "true" \/ args.flags["push"] = "true")

\* C10 witness: "--push" alone has been resolved to the two pushes and
\* nothing else.
C10_Witness ==
  /\ pc = "EnsureRepo"
  /\ args.flags["push"] = "true"
  /\ \A n \in FlagNames \ {"push"} : args.flags[n] = "unset"
  /\ actions = [NoActions EXCEPT !.pushCommit = TRUE, !.pushTag = TRUE]

\* The command line of the run has --all and an individual action flag.
AllWithActionFlag ==
  /\ args.cmd = "release"
  /\ args.flags["all"] = "true"
  /\ \E n \in ActionFlags : args.flags[n] # "unset"

\* C11: an invocation with --all and any of --stage-all, --commit, --tag,
\* --push, --push-commit, --push-tag (given as true or as false) ends with
\* the usage error, the changelog has not been parsed and no port call has
\* been issued.
C11_AllWithActionFlagRejected ==
  (pc # "resolve" /\ AllWithActionFlag) =>
    /\ pc = "done"
    /\ result.err.type = "usageError"
    /\ parses = 0
    /\ entry = NoEntry
    /\ calls = << >>

\* C11 witness: "--all --tag=false" on a readable changelog has been
\* rejected.
C11_Witness ==
  /\ pc = "done"
  /\ args.flags["all"] = "true"
  /\ args.flags["tag"] = "false"
  /\ \A n \in ActionFlags \ {"tag"} : args.flags[n] = "unset"
  /\ file = TestChangelog
  /\ result.err = usageError("--all cannot be combined with individual release action flags")
  /\ parses = 0
  /\ calls = << >>

\* The command line a with --push replaced by --push-commit --push-tag.
PushExpanded(a) ==
  [a EXCEPT !.flags["push"] = "unset",
            !.flags["push-commit"] = "true",
            !.flags["push-tag"] = "true"]

\* The run is a release run whose flags have been resolved.
ReleaseResolved ==
  /\ pc \notin {"idle", "resolve"}
  /\ args.cmd = "release"
  /\ ~args.positional
  /\ ~RejectsAllWithIndividualFlags(args)

\* C12: in a run with --push the action set is the one of the same command
\* line with --push-commit --push-tag in place of --push: both pushes are
\* set, the other actions are what their own flags say; and a run with
\* --push that succeeds has ended with PushHead(remote) and
\* PushTag(remote, tag).
C12_PushIsPushCommitAndPushTag ==
  (ReleaseResolved /\ args.flags["push"] = "true") =>
    /\ actions = ResolveActions(PushExpanded(args))
    /\ actions.pushCommit /\ actions.pushTag
    /\ actions.stageAll = FlagValue(args, "stage-all")
    /\ actions.commit = FlagValue(args, "commit")
    /\ actions.tag = FlagValue(args, "tag")
    /\ (pc = "done" /\ result.err = NoErr) =>
         /\ Len(calls) >= 2
         /\ calls[Len(calls) - 1].op = "PushHead"
         /\ calls[Len(calls) - 1].arg = <<DefaultRemote>>
         /\ calls[Len(calls)].op = "PushTag"
         /\ calls[Len(calls)].arg = <<DefaultRemote, ReleaseTag>>

\* C12 witness: "--push" alone has run to its end and issued exactly the
\* calls of a run that pushes the commit and the tag.
C12_Witness ==
  /\ pc = "done"
  /\ result.err = NoErr
  /\ ~dryRun
  /\ args.flags["push"] = "true"
  /\ \A n \in FlagNames \ {"push"} : args.flags[n] = "unset"
  /\ actions = [NoActions EXCEPT !.pushCommit = TRUE, !.pushTag = TRUE]
  /\ [i \in 1..Len(calls) |-> calls[i].op] =
       <<"EnsureRepo", "EnsureRemote", "FetchRemote", "PullFFOnly",
         "EnsureTagPresent", "PushHead", "PushTag">>

\* The read-only queries of the port.
QueryOps ==
  {"EnsureRepo", "EnsureRemote", "HasRemoteTag", "HasLocalTag", "EnsureTagAbsent",
   "EnsureTagPresent", "HasStagedChanges"}

\* The port operations in the order runRelease comes to them.
OpOrder ==
  <<"EnsureRepo", "EnsureRemote", "FetchRemote", "PullFFOnly", "HasRemoteTag",
    "DeleteRemoteTag", "HasLocalTag", "DeleteLocalTag", "EnsureTagAbsent",
    "EnsureTagPresent", "StageAll", "HasStagedChanges", "Commit", "CreateTag",
    "PushHead", "PushTag">>

OpRanks ==
  [op \in {OpOrder[k] : k \in 1..Len(OpOrder)} |->
     CHOOSE k \in 1..Len(OpOrder) : OpOrder[k] = op]

OpRank(op) == OpRanks[op]

\* The queries a release run with action set a makes, told from the flags
\* alone; dry matters to the staged-changes check only.
QueryPlanned(op, a, force, dry) ==
  CASE op = "EnsureRepo" -> TRUE
    [] op = "EnsureRemote" -> a.pushCommit \/ a.pushTag
    [] op = "HasRemoteTag" -> force /\ a.pushTag
    [] op = "HasLocalTag" -> force /\ a.tag
    [] op = "EnsureTagAbsent" -> a.tag /\ ~force
    [] op = "EnsureTagPresent" -> a.pushTag /\ ~a.tag
    [] op = "HasStagedChanges" -> a.commit /\ ~(dry /\ a.stageAll)

\* The error a release run returns for a query that fails or says no.
QueryFailure(c) ==
  CASE c.op = "EnsureTagAbsent" -> preflightError(TagExistsMsg)
    [] c.op = "EnsureTagPresent" -> preflightError(CreateTagFirstMsg)
    [] c.op = "HasStagedChanges" /\ c.ok ->
         preflightError(IF actions.stageAll
                        THEN "no changes to release after staging"
                        ELSE "no staged changes to commit")
    [] OTHER -> result.err

\* C13: in a release run, dry or not, the queries issued are those the
\* flags call for: every call is preceded by each planned query that comes
\* before it in the code, no other query is issued, and a run that succeeds
\* has issued all of them; the staged-changes check is planned unless the
\* run is dry with both stage-all and commit.  A query whose precondition
\* does not hold ends the run with the same error in both modes.
C13_DryRunMakesTheSameQueries ==
  ReleaseResolved =>
    /\ LET planned == {q \in QueryOps : QueryPlanned(q, actions, forceRetag, dryRun)}
       IN /\ \A i \in 1..Len(calls) :
               /\ calls[i].op \in QueryOps => calls[i].op \in planned
               /\ \A q \in planned :
                    OpRank(q) < OpRank(calls[i].op) =>
                      \E j \in 1..(i - 1) : calls[j].op = q
          /\ (pc = "done" /\ result.err = NoErr) => \A q \in planned : Issued(q)
    /\ (pc = "done" /\ Len(calls) > 0 /\ calls[Len(calls)].op \in QueryOps
          /\ (~calls[Len(calls)].ok \/ ~calls[Len(calls)].val)) =>
         /\ result.err # NoErr
         /\ result.err = QueryFailure(calls[Len(calls)])
         /\ result.err.type =
              (IF calls[Len(calls)].op \in {"EnsureTagAbsent", "EnsureTagPresent"}
                  \/ calls[Len(calls)].ok
               THEN "preflightError" ELSE "GitError")

\* C13 witness: a dry run with --tag has ended with the "already exists"
\* preflight error, on a repository that has the tag.
C13_Witness ==
  /\ pc = "done"
  /\ dryRun
  /\ ~forceRetag
  /\ actions = [NoActions EXCEPT !.tag = TRUE]
  /\ ReleaseTag \in repo0.localTags
  /\ Len(calls) = 2
  /\ calls[2].op = "EnsureTagAbsent"
  /\ result.err = preflightError(TagExistsMsg)

RemoteOps ==
  {"EnsureRemote", "FetchRemote", "FetchTags", "PullFFOnly", "HasRemoteTag",
   "DeleteRemoteTag", "PushHead", "PushTag"}

\* C14: in every release run and every check run the first port call is
\* EnsureRepo, so every remote-related call comes after it; when it fails
\* it is the only port call of the run and the run ends with its error.
C14_EnsureRepoFirst ==
  Len(calls) > 0 =>
    /\ args.cmd \in {"release", "check"}
    /\ calls[1].op = "EnsureRepo"
    /\ \A i \in 1..Len(calls) : calls[i].op \in RemoteOps => i > 1
    /\ calls[1].ok = repo0.isRepo
    /\ ~calls[1].ok =>
         /\ Len(calls) = 1
         /\ pc = "done"
         /\ result.err = EnsureRepo(repo0).err
         /\ result.err.type = "GitError"
         /\ result.out = ""

\* C14 witness: a check run outside a repository has ended with the error
\* of EnsureRepo after that one call.
C14_Witness ==
  /\ pc = "done"
  /\ args.cmd = "check"
  /\ ~repo0.isRepo
  /\ Len(calls) = 1
  /\ calls[1].op = "EnsureRepo"
  /\ ~calls[1].ok
  /\ result.err = EnsureRepo(repo0).err
  /\ result.err # NoErr

\* The i-th port call failed, or was the staged-changes check answering
\* that nothing is staged.
CallStopsRun(i) ==
  \/ ~calls[i].ok
  \/ calls[i].op = "HasStagedChanges" /\ ~calls[i].val

\* C15: in a release run a port call that returns an error, and a
\* staged-changes check that finds nothing staged, is the last port call of
\* the run: the run has ended with an error and without a closing line.  A
\* run that reports "Release complete" or "Dry-run complete." has no such
\* call.
C15_StopsAtFirstFailure ==
  (pc # "idle" /\ args.cmd = "release") =>
    /\ \A i \in 1..Len(calls) :
         CallStopsRun(i) =>
           /\ i = Len(calls)
           /\ pc = "done"
           /\ result.err # NoErr
           /\ result.out = ""
    /\ result.out # "" =>
         /\ pc = "done"
         /\ result.err = NoErr
         /\ \A i \in 1..Len(calls) : ~CallStopsRun(i)
    /\ (pc = "done" /\ result.err.type \in {"GitError", "preflightError"}) =>
         /\ Len(calls) > 0
         /\ CallStopsRun(Len(calls))

\* C15 witness: a run of the full pipeline has staged, committed and
\* tagged, PushHead has failed, and the run has ended there, PushTag not
\* issued.
C15_Witness ==
  /\ pc = "done"
  /\ args.cmd = "release"
  /\ actions = FullPipeline
  /\ ~dryRun
  /\ Len(calls) > 0
  /\ calls[Len(calls)].op = "PushHead"
  /\ ~calls[Len(calls)].ok
  /\ Issued("CreateTag")
  /\ ~Issued("PushTag")
  /\ result.err.type = "GitError"
  /\ result.out = ""

\* C16: a release run with neither pushCommit nor pushTag in its action
\* set issues no call that touches the remote (EnsureRemote, FetchRemote,
\* PullFFOnly, HasRemoteTag, DeleteRemoteTag, PushHead, PushTag), with or
\* without --force-retag and --dry-run; such a run can therefore succeed
\* in a repository that has no remote.
C16_LocalOnlyNeverTouchesRemote ==
  (ReleaseResolved /\ ~actions.pushCommit /\ ~actions.pushTag) =>
    /\ \A i \in 1..Len(calls) : calls[i].op \notin RemoteOps
    /\ pc \notin {"EnsureRemote", "FetchRemote", "PullFFOnly", "HasRemoteTag",
                  "DeleteRemoteTag", "PushOnlyHasRemoteTag",
                  "PushOnlyDeleteRemoteTag", "PushHead", "PushTag"}
    /\ repo.remoteTags = repo0.remoteTags
    /\ repo.hasRemote = repo0.hasRemote

\* C16 witness: "--stage-all --commit --tag --force-retag", not dry, has
\* succeeded in a repository without a remote, replacing the local tag.
C16_Witness ==
  /\ pc = "done"
  /\ result.err = NoErr
  /\ result.out = "Release complete"
  /\ forceRetag
  /\ ~dryRun
  /\ actions = [FullPipeline EXCEPT !.pushCommit = FALSE, !.pushTag = FALSE]
  /\ ~repo0.hasRemote
  /\ ReleaseTag \in repo0.localTags
  /\ Issued("DeleteLocalTag")
  /\ Issued("CreateTag")

\* A check run whose flags were accepted.
CheckRun == pc # "idle" /\ args.cmd = "check" /\ ~args.positional

\* C17 as stated: a check run issues no StageAll, Commit, CreateTag, tag
\* deletion or push, the index, commits and tags of the repository are at
\* its end what they were at its start, and it ends with a preflight error
\* when the tag existed.
C17_AsStated ==
  (CheckRun /\ pc = "done") =>
    /\ \A i \in 1..Len(calls) :
         calls[i].op \notin MutatingOps \cup {"DeleteLocalTag", "DeleteRemoteTag"}
    /\ repo.staged = repo0.staged
    /\ repo.dirty = repo0.dirty
    /\ repo.ahead = repo0.ahead
    /\ repo.localTags = repo0.localTags
    /\ repo.remoteTags = repo0.remoteTags
    /\ ReleaseTag \in repo0.localTags => result.err.type = "preflightError"

\* C17 amended: a check run issues only EnsureRepo, EnsureRemote, FetchTags
\* and EnsureTagAbsent; index, commits, branches and remote tags stay what
\* they were; the local tags stay what they were in a dry run (FetchTags is
\* not issued) and otherwise gain the tags of the remote once FetchTags has
\* succeeded; and a run whose tag check finds the tag ends with the
\* "already exists" preflight error, a run that ends with the tag present
\* locally never succeeds.
C17_CheckOnlyFetchesTags ==
  CheckRun =>
    /\ \A i \in 1..Len(calls) :
         calls[i].op \in {"EnsureRepo", "EnsureRemote", "FetchTags", "EnsureTagAbsent"}
    /\ [repo EXCEPT !.localTags = repo0.localTags] = repo0
    /\ repo.localTags =
         (IF \E i \in 1..Len(calls) : calls[i].op = "FetchTags" /\ calls[i].ok
          THEN repo0.localTags \cup repo0.remoteTags
          ELSE repo0.localTags)
    /\ dryRun => ~Issued("FetchTags") /\ repo = repo0
    /\ (pc = "done" /\ ReleaseTag \in repo.localTags) =>
         /\ result.err # NoErr
         /\ Issued("EnsureTagAbsent") => result.err = preflightError(TagExistsMsg)

\* C17 witness: a check run that is not dry has fetched the release tag
\* from the remote and ended with the "already exists" preflight error.
C17_Witness ==
  /\ CheckRun
  /\ pc = "done"
  /\ ~dryRun
  /\ ReleaseTag \notin repo0.localTags
  /\ ReleaseTag \in repo0.remoteTags
  /\ ReleaseTag \in repo.localTags
  /\ [i \in 1..Len(calls) |-> calls[i].op] =
       <<"EnsureRepo", "EnsureRemote", "FetchTags", "EnsureTagAbsent">>
  /\ result.err = preflightError(TagExistsMsg)

\* C18: a run that ends in a usage error (unknown command, positional
\* arguments, --all with an action flag) has not parsed the changelog and
\* has issued no port call; a run that ends in a parse error (changelog
\* unreadable or without an entry) has parsed it once and has issued no
\* port call; a port call is issued only in a run whose command line was
\* accepted and whose one parse of the changelog gave an entry; no run
\* parses the changelog twice, and every run of release, check or version
\* that ends otherwise than in a usage error has parsed it once (--version
\* does not read the changelog of the work tree).
C18_NoPortCallBeforeParse ==
  pc # "idle" =>
    /\ parses \in {0, 1}
    /\ result.err.type = "usageError" =>
         /\ calls = << >>
         /\ parses = 0
         /\ \/ args.cmd = "unknown"
            \/ args.positional
            \/ AllWithActionFlag
    /\ result.err.type = "ParseError" =>
         /\ calls = << >>
         /\ parses = 1
         /\ entry = NoEntry
         /\ ~file.readable \/ MainParses[file].err = ParseError(BadEntryMsg)
    /\ Len(calls) > 0 =>
         /\ parses = 1
         /\ [entry |-> entry, err |-> NoErr] = MainParses[file]
         /\ args.cmd \in {"release", "check"}
         /\ ~args.positional
         /\ ~AllWithActionFlag
         /\ args.cmd = "release" => actions = ResolveActions(args)
    /\ (pc = "done" /\ result.err.type # "usageError") =>
         parses = (IF args.cmd = "--version" THEN 0 ELSE 1)

\* C18 witness: a release run of the full pipeline on a missing changelog
\* has ended in the parse error after one parse and without a port call.
C18_Witness ==
  /\ pc = "done"
  /\ args.cmd = "release"
  /\ actions = FullPipeline
  /\ repo0.isRepo
  /\ file = MissingChangelog
  /\ result.err = ParseError(OpenFailedMsg)
  /\ parses = 1
  /\ calls = << >>

(***************************************************************************)
(* Properties of the parser.                                               *)
(***************************************************************************)
\* The lines the changelogs are made of, and those of them that
\* headerRegex matches.
ParseLines == ChangelogLines \cup EntryLines \cup SummaryLines

HeadingLines == {line \in ParseLines : headerRegex(line) # NoMatch}

\* The lines of a changelog that headerRegex matches.
HeadingIndexes(lines) ==
  {i \in 1..Len(lines) :
     IF lines[i] \in ParseLines THEN lines[i] \in HeadingLines
     ELSE headerRegex(lines[i]) # NoMatch}

\* The first of them after line i, or one past the last line.
NextHeading(lines, i) ==
  LET later == {j \in HeadingIndexes(lines) : j > i}
  IN IF later = {} THEN Len(lines) + 1
     ELSE CHOOSE j \in later : \A k \in later : j <= k

\* The changelog has been read by the one parse of the run.
Parsed == parses = 1 /\ file.readable

IsBulletLine(line) ==
  LET trimmed == TrimSpace(line)
  IN HasPrefix(trimmed, <<"-">>) /\ TrimSpace(Tail(trimmed)) # << >>

\* "- " and the trimmed text of a bullet line.
BulletText(line) == <<"-", " ">> \o TrimSpace(Tail(TrimSpace(line)))

\* The bullets of the entry of a changelog: those between its first
\* matching heading and the next one (or the end), in order.
EntryBullets(lines) ==
  LET first == NextHeading(lines, 0)
      bullets == SelectSeq(SubSeq(lines, first + 1, NextHeading(lines, first) - 1),
                           IsBulletLine)
  IN [k \in 1..Len(bullets) |-> BulletText(bullets[k])]

\* The lines of a text, split at its newlines.
RECURSIVE SplitLines(_)
SplitLines(text) ==
  IF text = << >> THEN << >>
  ELSE LET breaks == {k \in 1..Len(text) : text[k] = "\n"}
       IN IF breaks = {} THEN <<text>>
          ELSE LET k == CHOOSE x \in breaks : \A y \in breaks : x <= y
               IN <<SubSeq(text, 1, k - 1)>> \o SplitLines(SubSeq(text, k + 1, Len(text)))

IsVersionCore(s) ==
  /\ s # << >>
  /\ AllIn(s, Digit \cup {"."})
  /\ Cardinality({k \in 1..Len(s) : s[k] = "."}) \in {1, 2}
  /\ s[1] # "." /\ s[Len(s)] # "."
  /\ \A k \in 1..(Len(s) - 1) : ~(s[k] = "." /\ s[k + 1] = ".")

\* MAJOR.MINOR[.PATCH][-prerelease][+build], the version of the data model.
IsVersion(s) ==
  \E i \in 0..Len(s) : \E j \in i..Len(s) :
    /\ IsVersionCore(SubSeq(s, 1, i))
    /\ i = j \/ IsTagged(SubSeq(s, i + 1, j), "-")
    /\ j = Len(s) \/ IsTagged(SubSeq(s, j + 1, Len(s)), "+")

\* C21: a parse of a changelog that could be read gives either an entry and
\* no error or the error and no entry.  With an entry, its version reads
\* MAJOR.MINOR[.PATCH][-prerelease][+build] and its summary is not empty
\* and has no whitespace around it.  When no line of the changelog matches
\* the heading pattern, the parse gives the ParseError that names the
\* expected format "# <version> - <summary>", and no entry.
C21_ParseIsAllOrNothing ==
  Parsed =>
    /\ IF result.err = NoErr
       THEN /\ IsVersion(entry.Version)
            /\ entry.Summary # << >>
            /\ TrimSpace(entry.Summary) = entry.Summary
       ELSE /\ result.err = ParseError(BadEntryMsg)
            /\ ExitCode(result.err) = ExitParse
            /\ entry = NoEntry
    /\ HeadingIndexes(file.lines) = {} => result.err = ParseError(BadEntryMsg)

\* C21 witness: a changelog with a title, a second-level version heading
\* and a bullet (TestParseLatest_InvalidFormat) has been parsed to the
\* ParseError and no entry.
C21_Witness ==
  /\ pc = "done"
  /\ parses = 1
  /\ file = File(TRUE, <<TitleLine, SubHeadingLine, BulletLine>>)
  /\ result.err = ParseError(BadEntryMsg)
  /\ entry = NoEntry

\* A line without the # characters it starts with.
RECURSIVE StripHashes(_)
StripHashes(line) ==
  IF HasPrefix(line, <<"#">>) THEN StripHashes(Tail(line)) ELSE line

LeadingHashes(line) == Len(line) - Len(StripHashes(line))

\* "# " and what follows the # characters and the whitespace of a line.
AsTopHeading(line) == <<"#", " ">> \o TrimLeft(StripHashes(line))

\* The lines of a changelog that read "version - summary" after their #
\* characters, whatever the number of # and the whitespace after them.
VersionHeadings(lines) ==
  {i \in 1..Len(lines) :
     /\ LeadingHashes(lines[i]) >= 1
     /\ headerRegex(AsTopHeading(lines[i])) # NoMatch}

\* Those of them that start with one # only.
SingleHashHeadings(lines) ==
  {i \in VersionHeadings(lines) : LeadingHashes(lines[i]) = 1}

\* C22 as stated: the release headings are the lines with exactly one #
\* followed by whitespace and "version - summary"; a changelog without
\* such a line ("##" lines and lines like "#1.2 - c" only) gives a
\* ParseError.
C22_AsStated ==
  Parsed =>
    LET strict == {i \in SingleHashHeadings(file.lines) : file.lines[i][2] \in White}
    IN /\ HeadingIndexes(file.lines) = strict
       /\ strict = {} => result.err = ParseError(BadEntryMsg)

\* C22 amended: the release headings are the lines with exactly one #,
\* then whitespace or none, then "version - summary".  A line with two or
\* more # is never one; a line like "#1.2 - c" is one, and the entry is
\* taken from it when it is the first; a changelog whose version headings
\* all start with "##" gives the ParseError.
C22_HeadingHasOneHash ==
  Parsed =>
    LET single == SingleHashHeadings(file.lines)
    IN /\ HeadingIndexes(file.lines) = single
       /\ \A i \in HeadingIndexes(file.lines) : ~HasPrefix(file.lines[i], <<"#", "#">>)
       /\ IF single = {}
          THEN result.err = ParseError(BadEntryMsg) /\ entry = NoEntry
          ELSE LET first == CHOOSE i \in single : \A j \in single : i <= j
                   matches == headerRegex(AsTopHeading(file.lines[first]))
               IN IF TrimSpace(matches[3]) = << >>
                  THEN result.err = ParseError(BadEntryMsg)
                  ELSE /\ result.err = NoErr
                       /\ entry.Version = TrimSpace(matches[2])
                       /\ entry.Summary = TrimSpace(matches[3])

\* C22 witness: of "## 1.2 - d" / "#1.2 - c" / "- x" the entry is version
\* 1.2 with summary c and the bullet: the second-level heading is passed
\* over, the heading without whitespace after its # is taken.
C22_Witness ==
  /\ pc = "done"
  /\ parses = 1
  /\ file = File(TRUE, <<SubHeadingLine, NoSpaceHeadingLine, BulletLine>>)
  /\ result.err = NoErr
  /\ Text(entry.Version) = "1.2"
  /\ Text(entry.Summary) = "c"
  /\ Text(entry.Description) = "- x"

\* A line of prose or a blank line: no heading line and no bullet.
IsProse(line) ==
  ~HasPrefix(line, <<"#">>) /\ ~HasPrefix(TrimSpace(line), <<"-">>)

NotProse(line) == ~IsProse(line)

\* The lines of the entry of a changelog: those after its first matching
\* heading and before the next one.
EntryLinesOf(lines) ==
  LET first == NextHeading(lines, 0)
  IN SubSeq(lines, first + 1, NextHeading(lines, first) - 1)

\* C23: after a successful parse, the entry is the one the changelog
\* without its prose and blank lines parses to, so such lines neither add
\* to the description nor end the collection of bullets: every line of the
\* description is a bullet of the changelog, every bullet with text of the
\* entry is in the description, also after prose.  An entry without a
\* bullet parses successfully, with an empty description.
C23_ProseIsIgnored ==
  (Parsed /\ result.err = NoErr) =>
    LET section == EntryLinesOf(file.lines)
        described == SplitLines(entry.Description)
    IN /\ ParseLatest(File(TRUE, SelectSeq(file.lines, NotProse))) =
            [entry |-> entry, err |-> NoErr]
       /\ \A k \in 1..Len(described) :
            \E i \in 1..Len(section) :
              IsBulletLine(section[i]) /\ described[k] = BulletText(section[i])
       /\ \A i \in 1..Len(section) :
            IsBulletLine(section[i]) =>
              \E k \in 1..Len(described) : described[k] = BulletText(section[i])
       /\ (\A i \in 1..Len(section) : ~IsBulletLine(section[i])) =>
            entry.Description = << >>

\* C23 witness: of "# 1.2 - a" / "- x" / "p" / "  -  y " / "p" the
\* description is "- x\n- y": the bullet after the prose is collected, the
\* prose is not.
C23_Witness ==
  /\ pc = "done"
  /\ parses = 1
  /\ file = File(TRUE, <<HeadingLine, BulletLine, ProseLine, IndentedBulletLine,
                         ProseLine>>)
  /\ result.err = NoErr
  /\ Text(entry.Description) = "- x\n- y"

\* A bullet with text that starts in the first column of its line.
IsTopLevelBullet(line) == HasPrefix(line, <<"-">>) /\ IsBulletLine(line)

\* C24: after a successful parse the description is made of the top-level
\* bullets of the entry, those that start in the first column, in order;
\* an indented bullet under the heading of the entry is not in it.
C24_OnlyTopLevelBullets ==
  (Parsed /\ result.err = NoErr) =>
    LET bullets == SelectSeq(EntryLinesOf(file.lines), IsTopLevelBullet)
    IN SplitLines(entry.Description) = [k \in 1..Len(bullets) |-> BulletText(bullets[k])]

C26_TagChecksLookAtTagsOnly ==
  (Len(calls) > 0 /\ calls[Len(calls)].op \in {"EnsureTagAbsent", "EnsureTagPresent"}) =>
    LET c == calls[Len(calls)]
    IN IF c.op = "EnsureTagAbsent"
       THEN c.ok = (c.arg[1] \notin repo.localTags)
       ELSE c.ok = (c.arg[1] \in repo.localTags)

\* The positions of the calls of an operation in the call log.
CallsOf(op) == {i \in 1..Len(calls) : calls[i].op = op}

\* Every call of an operation of the first set stands before every call of
\* an operation of the second.
AllBefore(first, second) ==
  \A i \in 1..Len(calls) : \A j \in 1..Len(calls) :
    (calls[i].op \in first /\ calls[j].op \in second) => i < j

\* A release run with tag and --force-retag, once its actions are resolved.
ForcedTagRun ==
  /\ args.cmd = "release"
  /\ pc \notin {"idle", "resolve"}
  /\ actions.tag
  /\ forceRetag

\* C27: in a release run with tag and --force-retag, EnsureTagAbsent is
\* not issued.  With pushTag, HasRemoteTag is queried, and DeleteRemoteTag
\* follows it exactly when it answered true; then HasLocalTag is queried,
\* and DeleteLocalTag follows it exactly when it answered true.  A deletion
\* is issued only right after its query answered true.  The remote query
\* and deletion stand before the local ones, and all of them before
\* StageAll, Commit and CreateTag, which are issued only after HasLocalTag
\* has answered.  Without pushTag the remote tag is neither queried nor
\* deleted.
C27_ForceRetagDeletesWhatExists ==
  ForcedTagRun =>
    /\ ~Issued("EnsureTagAbsent")
    /\ \A i \in CallsOf("DeleteRemoteTag") :
         i > 1 /\ calls[i - 1].op = "HasRemoteTag" /\ calls[i - 1].ok /\ calls[i - 1].val
    /\ \A i \in CallsOf("DeleteLocalTag") :
         i > 1 /\ calls[i - 1].op = "HasLocalTag" /\ calls[i - 1].ok /\ calls[i - 1].val
    /\ \A i \in CallsOf("HasRemoteTag") :
         (calls[i].ok /\ i < Len(calls)) =>
           calls[i + 1].op = (IF calls[i].val THEN "DeleteRemoteTag" ELSE "HasLocalTag")
    /\ \A i \in CallsOf("HasLocalTag") :
         (calls[i].ok /\ calls[i].val /\ i < Len(calls)) =>
           calls[i + 1].op = "DeleteLocalTag"
    /\ AllBefore({"HasRemoteTag", "DeleteRemoteTag"}, {"HasLocalTag", "DeleteLocalTag"})
    /\ AllBefore({"HasRemoteTag", "DeleteRemoteTag", "HasLocalTag", "DeleteLocalTag"},
                 {"StageAll", "HasStagedChanges", "Commit", "CreateTag", "PushHead",
                  "PushTag"})
    /\ (\E op \in MutatingOps : Issued(op)) =>
         /\ \E i \in CallsOf("HasLocalTag") : calls[i].ok
         /\ actions.pushTag => \E i \in CallsOf("HasRemoteTag") : calls[i].ok
    /\ ~actions.pushTag => CallsOf("HasRemoteTag") \cup CallsOf("DeleteRemoteTag") = {}

\* C27 witness: the full pipeline with --force-retag has deleted the tag
\* on the remote, then locally, then staged, committed, tagged and pushed,
\* and has ended without error.
C27_Witness ==
  /\ pc = "done"
  /\ ForcedTagRun
  /\ ~dryRun
  /\ actions = FullPipeline
  /\ result.err = NoErr
  /\ \E i \in CallsOf("DeleteRemoteTag") : \E j \in CallsOf("DeleteLocalTag") :
       \E k \in CallsOf("CreateTag") : i < j /\ j < k /\ calls[i].ok /\ calls[j].ok
  /\ ReleaseTag \in repo0.localTags \cap repo0.remoteTags
  /\ ReleaseTag \in repo.localTags \cap repo.remoteTags

\* A tag deletion of the run that took effect.
DeletedATag ==
  \E i \in 1..Len(calls) :
    calls[i].op \in {"DeleteRemoteTag", "DeleteLocalTag"} /\ calls[i].ok /\ ~dryRun

\* The two preflight errors of the staged-changes check.
NothingToCommit ==
  {preflightError("no changes to release after staging"),
   preflightError("no staged changes to commit")}

\* C28 as stated: a release run with --force-retag that has ended with a
\* preflight error ("cannot push tag: create it first", "no changes to
\* release after staging", "no staged changes to commit") has deleted no
\* tag: no DeleteRemoteTag or DeleteLocalTag of the run took effect, and
\* the tags the repository and its remote had when the run started are
\* still there.
C28_AsStated ==
  ( /\ pc = "done"
    /\ args.cmd = "release"
    /\ forceRetag
    /\ result.err.type = "preflightError" ) =>
    /\ ~DeletedATag
    /\ repo0.localTags \subseteq repo.localTags
    /\ repo0.remoteTags \subseteq repo.remoteTags

\* C28 amended: a tag is deleted only by a run with --force-retag outside a
\* dry run.  A run without --force-retag, or a dry run, that ends with a
\* preflight error has removed no tag, and so has a run that ends with
\* "cannot push tag: create it first".  A run with tag and --force-retag
\* outside a dry run deletes the tags before it stages and looks for
\* staged changes: when it ends with "no changes to release after staging"
\* or "no staged changes to commit", the release tag is gone from the
\* local repository and, with pushTag, from the remote.
C28_ForcedRetagDeletesBeforeStagedCheck ==
  /\ DeletedATag => (args.cmd = "release" /\ forceRetag /\ ~dryRun)
  /\ (pc = "done" /\ result.err.type = "preflightError") =>
       /\ (~forceRetag \/ dryRun) =>
            /\ repo0.localTags \subseteq repo.localTags
            /\ repo0.remoteTags = repo.remoteTags
       /\ result.err = preflightError(CreateTagFirstMsg) => ~DeletedATag
       /\ (forceRetag /\ ~dryRun /\ actions.tag /\ result.err \in NothingToCommit) =>
            /\ ReleaseTag \notin repo.localTags
            /\ actions.pushTag => ReleaseTag \notin repo.remoteTags

\* C28 witness: the full pipeline with --force-retag, in a clean work
\* tree whose release tag exists locally and on the remote, has deleted
\* both tags and has then ended with "no changes to release after staging".
C28_Witness ==
  /\ pc = "done"
  /\ args.cmd = "release"
  /\ forceRetag
  /\ ~dryRun
  /\ actions = FullPipeline
  /\ result.err = preflightError("no changes to release after staging")
  /\ ReleaseTag \in repo0.localTags \cap repo0.remoteTags
  /\ ReleaseTag \notin repo.localTags \cup repo.remoteTags
  /\ DeletedATag

(***************************************************************************)
(* Properties of the errors of a run.                                      *)
(***************************************************************************)
\* The call is a tag check that failed on the tag itself: EnsureTagAbsent
\* of a tag the repository has, EnsureTagPresent of one it lacks.
FailedOnTheTag(c) ==
  \/ c.op = "EnsureTagAbsent" /\ ~c.ok /\ c.arg[1] \in repo.localTags
  \/ c.op = "EnsureTagPresent" /\ ~c.ok /\ c.arg[1] \notin repo.localTags

\* C29: a release or check run ends with a preflight error only when the
\* release tag exists locally ("already exists"), when it is absent
\* locally in a run that pushes the tag without creating it ("create it
\* first"), or when nothing is staged ("no changes to release", "no
\* staged changes to commit").  A run whose last port call failed for
\* another reason, EnsureTagAbsent and EnsureTagPresent included, ends
\* with the GitError that names the failed operation.
C29_PreflightErrorOnlyForPreconditions ==
  (pc = "done" /\ args.cmd \in {"release", "check"}) =>
    /\ result.err.type = "preflightError" =>
         \/ /\ result.err = preflightError(TagExistsMsg)
            /\ ReleaseTag \in repo.localTags
         \/ /\ result.err = preflightError(CreateTagFirstMsg)
            /\ ReleaseTag \notin repo.localTags
            /\ actions.pushTag /\ ~actions.tag
         \/ /\ result.err \in NothingToCommit
            /\ ~repo.staged
    /\ ( /\ Len(calls) > 0
         /\ ~calls[Len(calls)].ok
         /\ ~FailedOnTheTag(calls[Len(calls)]) ) =>
         /\ result.err.type = "GitError"
         /\ result.err.op # ""

(***************************************************************************)
(* Properties of the call log of a release run.                            *)
(***************************************************************************)
\* The operations of the git port runRelease calls.
ReleaseOps ==
  {"EnsureRepo", "EnsureRemote", "FetchRemote", "PullFFOnly", "EnsureTagAbsent",
   "EnsureTagPresent", "HasLocalTag", "HasRemoteTag", "DeleteLocalTag",
   "DeleteRemoteTag", "StageAll", "HasStagedChanges", "Commit", "CreateTag",
   "PushHead", "PushTag"}

\* C30: in a release run every call is one of the operations runRelease
\* uses, no operation is issued twice, and StageAll, Commit, CreateTag,
\* PushHead, PushTag are issued only when stageAll, commit, tag, pushCommit,
\* pushTag is in the action set.
C30_EachCallAtMostOnce ==
  args.cmd = "release" =>
    /\ \A i \in 1..Len(calls) : calls[i].op \in ReleaseOps
    /\ \A i \in 1..Len(calls) : \A j \in 1..(i - 1) : calls[i].op # calls[j].op
    /\ Issued("StageAll") => actions.stageAll
    /\ Issued("Commit") => actions.commit
    /\ Issued("CreateTag") => actions.tag
    /\ Issued("PushHead") => actions.pushCommit
    /\ Issued("PushTag") => actions.pushTag

\* C30 witness: a run with commit and pushTag only has ended without
\* error after eight calls, each issued once, Commit and PushTag among
\* them and none of StageAll, CreateTag, PushHead.
C30_Witness ==
  /\ pc = "done"
  /\ args.cmd = "release"
  /\ ~dryRun
  /\ result.err = NoErr
  /\ actions = [stageAll |-> FALSE, commit |-> TRUE, tag |-> FALSE,
                pushCommit |-> FALSE, pushTag |-> TRUE]
  /\ Len(calls) = 8
  /\ Issued("Commit") /\ Issued("PushTag")
  /\ ~Issued("StageAll") /\ ~Issued("CreateTag") /\ ~Issued("PushHead")

\* A line that reads "#", a version, "-" and then nothing or whitespace
\* only, with whitespace or none around the version.
IsVersionDashLine(line) ==
  /\ HasPrefix(line, <<"#">>)
  /\ \E k \in 2..Len(line) :
       /\ line[k] = "-"
       /\ IsVersion(TrimSpace(SubSeq(line, 2, k - 1)))
       /\ AllIn(SubSeq(line, k + 1, Len(line)), White)

\* The lines of that kind among the lines the changelogs are made of.
VersionDashLines == {line \in ParseLines : IsVersionDashLine(line)}

\* Those lines of a changelog that end with the separator, and those that
\* have whitespace after it.
EmptySummaryIndexes(lines) ==
  {i \in 1..Len(lines) : lines[i] \in VersionDashLines /\ lines[i][Len(lines[i])] = "-"}

BlankSummaryIndexes(lines) ==
  {i \in 1..Len(lines) : lines[i] \in VersionDashLines /\ lines[i][Len(lines[i])] \in White}

\* The parse of the changelog has given what the parse of the given lines
\* gives.
ParsedAs(lines) ==
  LET p == ParseLatest(File(TRUE, lines))
  IN result.err = p.err /\ entry = p.entry

\* The lines of a changelog without those at the given indexes.
Without(lines, indexes) ==
  LET kept == {i \in 1..Len(lines) : i \notin indexes}
      RECURSIVE Pick(_)
      Pick(i) == IF i > Len(lines) THEN << >>
                 ELSE IF i \in kept THEN <<lines[i]>> \o Pick(i + 1)
                 ELSE Pick(i + 1)
  IN Pick(1)

ActionOps == <<"StageAll", "Commit", "CreateTag", "PushHead", "PushTag">>

Selected(op) ==
  CASE op = "StageAll" -> actions.stageAll
    [] op = "Commit" -> actions.commit
    [] op = "CreateTag" -> actions.tag
    [] op = "PushHead" -> actions.pushCommit
    [] op = "PushTag" -> actions.pushTag

\* The run has reported "Release complete".
ReleaseReported == pc = "done" /\ result.out = "Release complete"

\* C33: when a release run reports "Release complete" it was no dry run
\* and returned no error; the operation of every action of the resolved
\* action set was issued exactly once and succeeded, the operation of no
\* other action was issued, and the operations came in the order StageAll,
\* Commit, CreateTag, PushHead, PushTag.  After the full pipeline the commit
\* was made with the summary of the entry as title and its description as
\* body, no local commit is left unpushed, and the tag tagPrefix + version
\* exists locally and on the remote.
C33_SuccessMeansAllActionsDone ==
  ReleaseReported =>
    /\ ~args.dryRun
    /\ result.err = NoErr
    /\ \A k \in 1..Len(ActionOps) :
         IF Selected(ActionOps[k])
         THEN \E i \in 1..Len(calls) :
                /\ calls[i].op = ActionOps[k]
                /\ calls[i].ok
                /\ \A j \in 1..Len(calls) : calls[j].op = ActionOps[k] => j = i
         ELSE ~Issued(ActionOps[k])
    /\ \A i \in 1..Len(calls) : \A j \in 1..(i - 1) :
         (calls[i].op \in MutatingOps /\ calls[j].op \in MutatingOps) =>
           OpRank(calls[j].op) < OpRank(calls[i].op)
    /\ actions = FullPipeline =>
         /\ \E i \in 1..Len(calls) :
              /\ calls[i].op = "Commit"
              /\ calls[i].arg = <<Text(entry.Summary), Text(entry.Description)>>
              /\ calls[i].arg = <<EntrySummary, EntryDescription>>
         /\ repo.ahead = 0
         /\ ReleaseTag = DefaultTagPrefix \o Text(entry.Version)
         /\ ReleaseTag \in repo.localTags
         /\ ReleaseTag \in repo.remoteTags

\* C33 witness: a full-pipeline run with --force-retag, started with the
\* tag on both sides and one unpushed commit, has reported the release:
\* the tag was deleted and made again, and nothing is left unpushed.
C33_Witness ==
  /\ ReleaseReported
  /\ actions = FullPipeline
  /\ forceRetag
  /\ ReleaseTag \in repo0.localTags \cap repo0.remoteTags
  /\ Issued("DeleteLocalTag") /\ Issued("Commit") /\ Issued("PushTag")
  /\ repo.ahead = 0
  /\ ReleaseTag \in repo.localTags \cap repo.remoteTags

(***************************************************************************)
(* Properties across runs.                                                 *)
(***************************************************************************)
\* A release run with tag set and without --force-retag that comes after a
\* run that released this version, the tag of that run not having been
\* deleted since.
TagRunAfterRelease ==
  /\ lastTagRun = "released"
  /\ Len(calls) > 0
  /\ actions.tag
  /\ ~forceRetag

\* C31 as stated: once a release run with tag set, not a dry run, has gone
\* through for the version of the changelog, every later run for that
\* version with tag set and without --force-retag issues none of StageAll,
\* Commit, CreateTag, PushHead, PushTag and ends with the "already exists"
\* preflight error.
C31_AsStated ==
  TagRunAfterRelease =>
    /\ \A op \in MutatingOps : ~Issued(op)
    /\ pc = "done" => result.err = preflightError(TagExistsMsg)

\* C31 amended: once a release run with tag set, not a dry run, has gone
\* through for the version of the changelog, the tag stays in the
\* repository until a --force-retag run deletes it, and until then every
\* later run for that version with tag set and without --force-retag,
\* dry run or not, issues none of StageAll, Commit, CreateTag, PushHead,
\* PushTag, so that it adds no commit and leaves the tags as they are; it
\* ends with the "already exists" preflight error, unless a port call
\* before the tag check (EnsureRemote, FetchRemote, PullFFOnly of a push
\* flow) failed, in which case it ends with the GitError of that call.
C31_ReleasedVersionBailsOut ==
  TagRunAfterRelease =>
    /\ ReleaseTag \in repo0.localTags
    /\ \A op \in MutatingOps : ~Issued(op)
    /\ repo.ahead = repo0.ahead
    /\ repo.localTags = repo0.localTags
    /\ repo.remoteTags = repo0.remoteTags
    /\ pc = "done" =>
         /\ ~calls[Len(calls)].ok
         /\ IF calls[Len(calls)].op = "EnsureTagAbsent"
            THEN /\ result.err = preflightError(TagExistsMsg)
                 /\ ExitCode(result.err) = ExitPreflight
            ELSE /\ calls[Len(calls)].op \in {"EnsureRemote", "FetchRemote", "PullFFOnly"}
                 /\ needsRemote(actions)
                 /\ result.err.type = "GitError"

\* C31 witness: after a release of the version, the work tree was edited
\* and the default run was started again without a new changelog entry; it
\* has ended with the "already exists" preflight error, the tag is where
\* the first run put it, locally and on the remote.
C31_Witness ==
  /\ pc = "done"
  /\ TagRunAfterRelease
  /\ actions = FullPipeline
  /\ ~dryRun
  /\ repo0.dirty
  /\ result.err = preflightError(TagExistsMsg)
  /\ ReleaseTag \in repo.localTags \cap repo.remoteTags
  /\ repo.dirty

\* The action set of mdrelease --push-tag.
PushTagOnly == [NoActions EXCEPT !.pushTag = TRUE]

\* A run, not a dry run, in which CreateTag succeeded and PushTag failed
\* has ended.
EndedAtPushTag ==
  /\ pc = "done"
  /\ createdTag
  /\ ~dryRun
  /\ calls[Len(calls)].op = "PushTag"
  /\ ~calls[Len(calls)].ok

\* A release run that comes after such a run, the tag of that run not
\* having been deleted since.
RunAfterFailedPushTag == lastTagRun = "pushTagFailed" /\ Len(calls) > 0

\* C32 as stated: a run in which CreateTag succeeded and PushTag failed
\* leaves the tag in the local repository; a following run with pushTag
\* only passes EnsureTagPresent and issues PushTag for the tag, without
\* CreateTag; a following run with tag set and without --force-retag ends
\* with the "already exists" preflight error.
C32_AsStated ==
  /\ EndedAtPushTag => ReleaseTag \in repo.localTags
  /\ (RunAfterFailedPushTag /\ actions = PushTagOnly) =>
       /\ ~Issued("CreateTag")
       /\ pc = "done" =>
            \E i \in 1..Len(calls) :
              /\ calls[i].op = "PushTag"
              /\ calls[i].arg = <<DefaultRemote, ReleaseTag>>
              /\ SucceededBefore("EnsureTagPresent", <<ReleaseTag>>, i)
  /\ (RunAfterFailedPushTag /\ actions.tag /\ ~forceRetag) =>
       (pc = "done" => result.err = preflightError(TagExistsMsg))

\* C32 amended: a run in which CreateTag succeeded and PushTag failed
\* leaves the tag in the local repository and returns the error with the
\* "created locally" remediation.  In a following run with pushTag only,
\* CreateTag is not issued and EnsureTagPresent, once reached, succeeds;
\* the run then issues PushTag for the tag as its last call, and a PushTag
\* that succeeds outside a dry run puts the tag on the remote; the run ends
\* without PushTag only when a port call before the tag check failed
\* (FetchRemote or PullFFOnly, and with --force-retag HasRemoteTag or
\* DeleteRemoteTag).  A following run with tag set and without
\* --force-retag issues no StageAll, Commit, CreateTag, PushHead, PushTag
\* and ends with the "already exists" preflight error, unless FetchRemote
\* or PullFFOnly failed before the tag check.
C32_FailedPushTagIsRecoverable ==
  /\ EndedAtPushTag =>
       /\ ReleaseTag \in repo.localTags
       /\ result.err.note
  /\ RunAfterFailedPushTag => ReleaseTag \in repo0.localTags
  /\ (RunAfterFailedPushTag /\ actions = PushTagOnly) =>
       /\ ~Issued("CreateTag")
       /\ \A i \in 1..Len(calls) : calls[i].op = "EnsureTagPresent" => calls[i].ok
       /\ ReleaseTag \in repo.localTags
       /\ pc = "done" =>
            IF calls[Len(calls)].op = "PushTag"
            THEN /\ calls[Len(calls)].arg = <<DefaultRemote, ReleaseTag>>
                 /\ SucceededBefore("EnsureTagPresent", <<ReleaseTag>>, Len(calls))
                 /\ result.err = NoErr <=> calls[Len(calls)].ok
                 /\ ~result.err.note
                 /\ (calls[Len(calls)].ok /\ ~dryRun) => ReleaseTag \in repo.remoteTags
            ELSE /\ ~calls[Len(calls)].ok
                 /\ calls[Len(calls)].op \in
                      (IF forceRetag
                       THEN {"FetchRemote", "PullFFOnly", "HasRemoteTag", "DeleteRemoteTag"}
                       ELSE {"FetchRemote", "PullFFOnly"})
                 /\ result.err.type = "GitError"
  /\ (RunAfterFailedPushTag /\ actions.tag /\ ~forceRetag) =>
       /\ \A op \in MutatingOps : ~Issued(op)
       /\ pc = "done" =>
            /\ ~calls[Len(calls)].ok
            /\ IF calls[Len(calls)].op = "EnsureTagAbsent"
               THEN result.err = preflightError(TagExistsMsg)
               ELSE /\ calls[Len(calls)].op \in {"FetchRemote", "PullFFOnly"}
                    /\ needsRemote(actions)
                    /\ result.err.type = "GitError"

\* C32 witness: after a run that made the tag and failed to push it,
\* mdrelease --push-tag has found the tag with EnsureTagPresent and pushed
\* it: the remote, which did not have the tag, has it now, and CreateTag
\* was not issued.
C32_Witness ==
  /\ pc = "done"
  /\ RunAfterFailedPushTag
  /\ actions = PushTagOnly
  /\ ~forceRetag
  /\ ~dryRun
  /\ result.err = NoErr
  /\ Issued("EnsureTagPresent") /\ Issued("PushTag") /\ ~Issued("CreateTag")
  /\ ReleaseTag \notin repo0.remoteTags
  /\ ReleaseTag \in repo.remoteTags

====
